---- MODULE Spec2Model ----
(***************************************************************************)
(* rpi-imager-tui: the elevated worker (worker.rs), the transfer engine    *)
(* (writer.rs), the boot volume installer (post_process.rs) and the        *)
(* supervisor's reader and event loop (main.rs).                           *)
(*                                                                         *)
(* Spec     the worker process: run_worker parsing its arguments, the      *)
(*          write_image task and the loop that prints its events.          *)
(* SupSpec  the supervisor: spawning the worker, the reader task relaying  *)
(*          the worker's output lines, the event loop and the keys of the  *)
(*          Writing / AbortConfirmation / Finished views.                  *)
(***************************************************************************)
EXTENDS Integers, Sequences, FiniteSets, TLC

\* ------------------------------------------------------------------ bounds
\* Longest decompressed image, in bytes.
MaxLen == 2
\* Length of the chunk buffer and of the BufWriter (4 MiB in the code), in bytes.
BufLen == 2

Bytes == {0, 1}

Min(a, b) == IF a < b THEN a ELSE b

\* Option<T> is a sequence of at most one element.
None == <<>>
Some(x) == <<x>>
IsSome(o) == Len(o) = 1
Unwrap(o) == o[1]

\* The images of the model: the first n bytes of 0, 1, 0, 1, ...
Image(n) == [k \in 1..n |-> (k - 1) % 2]
Images == {Image(n) : n \in 0..MaxLen}

\* ------------------------------------------------------------------ SHA-256
\* Sha256 is modelled as a collision-free digest: bijective base-3 numeration
\* of the bytes fed to the hasher, so two byte strings have the same digest
\* exactly when they are equal.
Sha256New == 0

RECURSIVE Sha256Update(_, _)
Sha256Update(h, bytes) ==
    IF bytes = <<>> THEN h
    ELSE Sha256Update(h * 3 + Head(bytes) + 1, Tail(bytes))

Sha256Of(bytes) == Sha256Update(Sha256New, bytes)

RECURSIVE Pow3(_)
Pow3(n) == IF n = 0 THEN 1 ELSE 3 * Pow3(n - 1)

Digests == 0..Pow3(MaxLen + 2)

\* hex::encode gives lowercase digits; a catalog may spell the same digest in
\* uppercase.
HexEncode(h) == "ab" \o ToString(h)
HexUpper(h) == "AB" \o ToString(h)

\* str::to_lowercase on the strings of the model: only HexUpper strings hold
\* uppercase letters.
ToLowercase(s) ==
    IF \E h \in Digests : s = HexUpper(h)
    THEN HexEncode(CHOOSE h \in Digests : s = HexUpper(h))
    ELSE s

\* ------------------------------------------------------------------ events
\* AppMessage (main.rs) and WorkerMessage (worker.rs): a tag, a number for
\* the progress variants and a string for the others.
Ev(t, n, s) == [type |-> t, num |-> n, str |-> s]
WriteProgress(p) == Ev("WriteProgress", p, "")
VerifyProgressMsg(p) == Ev("VerifyProgress", p, "")
WriteStatus(s) == Ev("WriteStatus", 0, s)
WritingPhase(p) == Ev("WritingPhase", 0, p)
WriteError(e) == Ev("WriteError", 0, e)
WriteFinished == Ev("WriteFinished", 0, "")

IsTerminal(e) == e.type \in {"WriteFinished", "WriteError", "Finished", "Error"}

\* ------------------------------------------------------------------ state
VARIABLES
    \* run_worker
    args,           \* the argument vector of the worker process
    image_url, device_path, sha256, size, options,
    mpc,            \* run_worker: "parse", "loop", "exited"
    exit_code,      \* Option: the exit status of the worker process
    out,            \* the JSON lines printed on standard output, in order
    chan,           \* the worker's mpsc channel from write_image to the loop
    \* write_image
    wpc,            \* position of the spawned write_image task
    result,         \* Option: what write_image returned
    src,            \* the decompressed bytes the source will deliver
    pos,            \* bytes delivered by the decoder so far
    bw,             \* bytes held by the BufWriter, not yet written to the device
    dev,            \* bytes the device file holds (what a read returns)
    disk,           \* bytes committed to stable storage
    hasher, total_written, verify_hasher, total_read,
    source_hash_hex,
    ops,            \* the operations performed on the device, in order
    sent,           \* every event write_image and its wrapper sent, in order
    \* apply_customization
    mount_dir,      \* the private mount point directory exists
    mounted,        \* the boot partition is mounted
    body_ok         \* result of the closure writing firstrun.sh and cmdline.txt

wvars == <<args, image_url, device_path, sha256, size, options, mpc, exit_code,
           out, chan, wpc, result, src, pos, bw, dev, disk, hasher,
           total_written, verify_hasher, total_read, source_hash_hex, ops, sent,
           mount_dir, mounted, body_ok>>

\* The supervisor (main.rs) and the worker process it spawned.
VARIABLES
    app,            \* the fields of App that the write views use
    lpc,            \* run_app's loop: "top", "recv", "key", "quit"
    rx,             \* the supervisor's mpsc channel of AppMessage
    child,          \* the spawned process: "none", "running", "exited"
    child_status,   \* Option: the exit status of the spawned process
    helper,         \* the elevation helper that launched it: "", "sudo", "pkexec"
    pipe,           \* lines written to the child's standard output, not yet read
    produced,       \* every line the child has written, in order
    reader,         \* the reader task: "none", "reading", "waiting", "done", "aborted"
    relayed,        \* every message the reader made from a line and sent, in order
    aborted,        \* abort_writing has run
    attempts,       \* the number of invocations spawned so far
    prevs,          \* the processes and reader tasks of earlier invocations
                    \* that have not ended: records [child, child_status, pipe, reader]
    tried           \* the helpers the latest invocation tried, with their results

svars == <<app, lpc, rx, child, child_status, helper, pipe, produced, reader,
           relayed, aborted, attempts, prevs, tried>>

\* The first-run script made from the customization options
\* (customization.rs 152-372).
VARIABLES
    custom,         \* the CustomizationOptions
    script,         \* Option: what generate_firstrun_script returned
    again,          \* Option: what a second call on the same options returned
    config,         \* the settings file CustomizationOptions::load looks for
    loaded          \* load has returned

cvars == <<custom, script, again, config, loaded>>

\* apply_customization (post_process.rs 7-92) on the written device.
VARIABLES
    apc,            \* where the function is: "call", "mount", "script",
                    \* "cmdline", "umount", "done"
    target,         \* device_path
    boot_partition, \* what get_boot_partition made of it
    mount_point,    \* the private mount point directory exists
    boot_mounted,   \* the boot partition is mounted on it
    mount_status,   \* Option: the exit status of mount
    umount_status,  \* Option: the exit status of umount
    closure,        \* Option: the result of the closure (the code's result)
    returned,       \* Option: what apply_customization returned
    cmdline,        \* Option: the content of cmdline.txt on the boot partition
    original,       \* Option: cmdline.txt as the image had it
    firstrun,       \* firstrun.sh is on the boot partition
    runs            \* the calls of apply_customization on this volume so far

pvars == <<apc, target, boot_partition, mount_point, boot_mounted, mount_status,
           umount_status, closure, returned, cmdline, original, firstrun, runs>>

\* The fields of App that the key handlers of the views read and write
\* (main.rs 72-110), with the run of the worker seen from the views.
VARIABLES
    nav,            \* App: the views, the lists, their cursors and the stacks
    attempt,        \* "none", "running", "aborted": the worker of the last write
    writes          \* the invocations taken so far

nvars == <<nav, attempt, writes>>

vars == <<wvars, svars, cvars, pvars, nvars>>

\* ------------------------------------------------------------------ inputs
\* Image sources: well-formed absolute URLs are "http://h" + path + query.
Exts == {".xz", ".gz", ".zst", ".zip", ".img"}
Stems == {"/i"}
Paths == {st \o e : st \in Stems, e \in Exts}
Queries == {"", "?f=a.zip"}
UrlBase == "http://h"
Urls == {UrlBase \o p : p \in Paths} \cup {UrlBase \o "/i.img" \o "?f=a.zip"}
\* A local path, as main.rs passes for an image named on the command line.
LocalPath == "/home/u/i.img"

\* reqwest::Url::path: the URL without scheme, host and query.
UrlPath(u) == CHOOSE p \in Paths : \E q \in Queries : u = UrlBase \o p \o q

\* str::ends_with on the paths of the model.
EndsWith(s, suf) == \E st \in Stems : s = st \o suf

Devices == {"/dev/sda"}

\* The settings blob: base64 of the JSON of the settings. Only OptionsBlob
\* decodes to a settings record: the defaults with the hostname pi-lab.
OptionsBlob == "eyJob3N0bmFtZSI6InBpLWxhYiIsIC4uLn0="
GarbageBlob == "!!not-base64!!"

\* Decimal strings of the sizes of the model.
Sizes == 1..MaxLen
ParseU64(s) ==
    IF \E n \in 0..(MaxLen + 1) : s = ToString(n)
    THEN Some(CHOOSE n \in 0..(MaxLen + 1) : s = ToString(n))
    ELSE None

\* What App::start_writing puts after the executable name, and the
\* malformed variants of it: a part left out, a flag without its value, a
\* size that is no decimal number, a blob that does not decode.
DeviceArgs == {<<>>} \cup {<<"--device", d>> : d \in Devices}
OptionsArgs == {<<>>, <<"--options", OptionsBlob>>, <<"--options", GarbageBlob>>}
ImageArgs == {<<>>, <<"--image">>, <<"--image", LocalPath>>} \cup {<<"--image", u>> : u \in Urls}
BadSizeArgs == {<<>>, <<"--size">>, <<"--size", "abc">>}
Sha256Args(data) ==
    {<<>>, <<"--sha256", HexEncode(Sha256Of(data))>>,
     <<"--sha256", HexUpper(Sha256Of(data))>>,
     <<"--sha256", HexEncode(Sha256Of(data) + 1)>>}
SizeArgs == {<<>>} \cup {<<"--size", ToString(n)>> : n \in Sizes}

Exe == <<"rpi-imager-tui", "--worker">>

\* Every shape of the argument vector, for one image of one byte.
ShapeInputs ==
    {[src |-> <<1>>, args |-> Exe \o d \o o \o i \o z] :
        d \in DeviceArgs, o \in OptionsArgs, i \in ImageArgs, z \in BadSizeArgs}

\* Every image, expected hash and expected size, for one well-formed shape.
TransferInputs ==
    UNION {{[src |-> data,
             args |-> Exe \o <<"--device", "/dev/sda", "--options", OptionsBlob,
                               "--image", UrlBase \o "/i.xz">> \o h \o z] :
                h \in Sha256Args(data), z \in SizeArgs} : data \in Images}

Inputs == ShapeInputs \cup TransferInputs

\* ------------------------------------------------------------------ the worker's output lines
\* A line of the worker's standard output: the JSON record of a
\* WorkerMessage ({"type": tag, "data": payload}), or something else. `data`
\* is the kind of the payload: "num", "str" or "none"; "bytes" is a line that
\* is no UTF-8.
Line(t, k, n, st) == [type |-> t, data |-> k, num |-> n, str |-> st]

ProtocolLines ==
    {Line("Progress", "num", 50, ""), Line("Status", "str", 0, "Writing... %"),
     Line("Error", "str", 0, "boom"), Line("Finished", "none", 0, "")}
MalformedLines ==
    {Line("Heartbeat", "num", 1, ""),      \* a tag this reader does not know
     Line("Progress", "str", 0, "half"),   \* a known tag with the wrong payload
     Line("bytes", "none", 0, "")}         \* no UTF-8
Lines == ProtocolLines \cup MalformedLines

\* tokio Lines::next_line: a line that is not UTF-8 is an error.
IsUtf8(l) == l.type # "bytes"

\* serde_json::from_str::<WorkerMessage> (worker.rs 10-19): the tag is a
\* variant and the payload has the variant's type.
PayloadOf(t) ==
    CASE t \in {"Progress", "VerifyProgress"} -> "num"
      [] t \in {"Status", "Phase", "Error"} -> "str"
      [] t = "Finished" -> "none"
      [] OTHER -> "no such variant"

ParseLine(l) ==
    IF IsUtf8(l) /\ l.data = PayloadOf(l.type)
    THEN Some(Ev(l.type, l.num, l.str))
    ELSE None

\* worker.rs 139-141: serde_json::to_string of a WorkerMessage, one line.
JsonLine(m) == Line(m.type, PayloadOf(m.type), m.num, m.str)

IsTerminalLine(l) == IsUtf8(l) /\ l.type \in {"Finished", "Error"}

\* ------------------------------------------------------------------ run_worker
EmptyParse == [image_url |-> "", device_path |-> "", sha256 |-> None,
               size |-> None, options_b64 |-> ""]

SetArg(acc, flag, v) ==
    CASE flag = "--image" -> [acc EXCEPT !.image_url = v]
      [] flag = "--device" -> [acc EXCEPT !.device_path = v]
      [] flag = "--sha256" -> [acc EXCEPT !.sha256 = Some(v)]
      [] flag = "--size" -> [acc EXCEPT !.size = ParseU64(v)]
      [] flag = "--options" -> [acc EXCEPT !.options_b64 = v]

WorkerFlags == {"--image", "--device", "--sha256", "--size", "--options"}

\* The while loop over args: a flag takes the next argument as its value when
\* there is one; everything else is skipped.
RECURSIVE ParseArgs(_, _, _)
ParseArgs(a, i, acc) ==
    IF i > Len(a) THEN acc
    ELSE IF a[i] \in WorkerFlags
         THEN IF i + 1 <= Len(a)
              THEN ParseArgs(a, i + 2, SetArg(acc, a[i], a[i + 1]))
              ELSE ParseArgs(a, i + 2, acc)
         ELSE ParseArgs(a, i + 1, acc)

\* A string of the options is the sequence of its tokens: a token is one of
\* the characters the escaping functions and the shell treat specially
\* (" $ ' \ .) or a run of other characters. The empty string is <<>>.
\* CustomizationOptions::default (customization.rs 34-54)
Default ==
    [hostname |-> <<"raspberrypi">>, timezone |-> <<"Europe/London">>,
     keyboard_layout |-> <<"gb">>, user_name |-> <<"pi">>, password |-> None,
     ssh_enabled |-> FALSE, ssh_password_auth |-> TRUE, ssh_public_keys |-> <<>>,
     wifi_ssid |-> <<>>, wifi_password |-> <<>>, wifi_country |-> <<"GB">>,
     wifi_hidden |-> FALSE, locale |-> <<"en_GB", ".", "UTF-8">>,
     telemetry |-> TRUE, eject_finished |-> TRUE]

\* base64 decode then serde_json::from_slice, each with unwrap_or_default
\* (worker.rs 72-80).
DecodeOptions(b64) ==
    IF b64 = OptionsBlob THEN [Default EXCEPT !.hostname = <<"pi-lab">>] ELSE Default

\* needs_customization, had it looked at the two flags of the Options tab.
needs_customization_flags(o) ==
    o # [Default EXCEPT !.wifi_password = o.wifi_password,
                        !.wifi_country = o.wifi_country,
                        !.wifi_hidden = o.wifi_hidden,
                        !.ssh_password_auth = o.ssh_password_auth,
                        !.ssh_public_keys = o.ssh_public_keys]

\* CustomizationOptions::needs_customization (customization.rs 140-150)
needs_customization(o) ==
    \/ o.hostname # <<"raspberrypi">>
    \/ o.ssh_enabled
    \/ o.wifi_ssid # <<>>
    \/ o.user_name # <<"pi">>
    \/ IsSome(o.password)
    \/ o.timezone # <<"Europe/London">>
    \/ o.keyboard_layout # <<"gb">>
    \/ o.locale # <<"en_GB", ".", "UTF-8">>

\* ------------------------------------------------------------------ the first-run script (customization.rs)

\* The length of the names the script is made for.
MaxName == 2

\* The characters of a device path after /dev/.
MaxPath == 2

\* The calls of apply_customization on one volume.
MaxRuns == 2

\* str::replace of one character by a string.
RECURSIVE replace(_, _, _)
replace(s, from, to) ==
    IF s = <<>> THEN <<>>
    ELSE (IF Head(s) = from THEN to ELSE <<Head(s)>>) \o replace(Tail(s), from, to)

\* An escaping function that escapes nothing.
shell_escape_none(s) == s

\* shell_escape (customization.rs 375-377)
shell_escape(s) == replace(replace(s, "\"", <<"\\", "\"">>), "$", <<"\\", "$">>)

\* regex_escape (customization.rs 379-381)
regex_escape(s) == replace(s, ".", <<"\\", ".">>)

\* What the random source of pwhash gives a call: a salt, or a failure.
Salts == {"saltA", "saltB"}
RandomError == ""
Rng == Salts \cup {RandomError}

\* hash_password with the password left as it is.
hash_password_plain(password, rng) == password

\* hash_password (customization.rs 383-385): sha512_crypt::hash draws a salt
\* and gives $6$salt$digest, the digest depending on the password and the
\* salt; on an error the hash is the empty string.
hash_password(password, rng) ==
    IF rng = RandomError THEN <<>>
    ELSE <<"$", "6", "$", rng, "$", "digest" \o ToString(Len(password)) \o rng>>

\* The script is the sequence of the pieces pushed to it. Text of the code
\* is a piece of its own, with the section of the code it belongs to; a value
\* put into a format string is a piece with the quoting of the place it is
\* put at: "word" (unquoted), "dq" (inside double quotes), "sq" (inside
\* single quotes) or "heredoc" (inside a heredoc with a quoted delimiter).
Lit(block, text) == [block |-> block, ctx |-> "text", field |-> "", val |-> <<text>>]
Ins(block, ctx, field, val) == [block |-> block, ctx |-> ctx, field |-> field, val |-> val]

\* customization.rs 153-156
Header == <<Lit("header", "#!/bin/bash\n"), Lit("header", "set +e\n")>>

\* customization.rs 158-172
HostnameBlock(o) ==
    IF o.hostname # <<>>
    THEN <<Lit("hostname", "CURRENT_HOSTNAME=$(cat /etc/hostname | tr -d \" \\t\\n\\r\")\nif [ -f /usr/lib/raspberrypi-sys-mods/imager_custom ]; then\n/usr/lib/raspberrypi-sys-mods/imager_custom set_hostname "),
           Ins("hostname", "word", "hostname", shell_escape(o.hostname)),
           Lit("hostname", "\nelse\necho "),
           Ins("hostname", "word", "hostname", shell_escape(o.hostname)),
           Lit("hostname", " > /etc/hostname\nsed -i \"s/127.0.1.1.*$CURRENT_HOSTNAME/127.0.1.1\\t"),
           Ins("hostname", "dq", "hostname", o.hostname),
           Lit("hostname", "/g\" /etc/hosts\nfi\n")>>
    ELSE <<>>

\* customization.rs 174-176
FirstUser ==
    <<Lit("firstuser", "FIRSTUSER=$(getent passwd 1000 | cut -d: -f1)\n"),
      Lit("firstuser", "FIRSTUSERHOME=$(getent passwd 1000 | cut -d: -f6)\n")>>

\* The SSH section with the helper's branch alone: no fallback that writes
\* authorized_keys and the sshd configuration.
SshBlockHelperOnly(o) ==
    IF o.ssh_enabled /\ o.ssh_public_keys # <<>>
    THEN <<Lit("ssh", "   /usr/lib/raspberrypi-sys-mods/imager_custom enable_ssh -k '"),
           Ins("ssh", "sq", "ssh_public_keys", o.ssh_public_keys),
           Lit("ssh", "'\n")>>
    ELSE <<>>

\* customization.rs 178-209
SshBlock(o) ==
    IF ~o.ssh_enabled THEN <<>>
    ELSE IF o.ssh_public_keys # <<>>
    THEN <<Lit("ssh", "if [ -f /usr/lib/raspberrypi-sys-mods/imager_custom ]; then\n"),
           Lit("ssh", "   /usr/lib/raspberrypi-sys-mods/imager_custom enable_ssh -k '"),
           Ins("ssh", "sq", "ssh_public_keys", o.ssh_public_keys),
           Lit("ssh", "'\n"),
           Lit("ssh", "else\n"),
           Lit("ssh", "   install -o \"$FIRSTUSER\" -m 700 -d \"$FIRSTUSERHOME/.ssh\"\n"),
           Lit("ssh", "   cat > \"$FIRSTUSERHOME/.ssh/authorized_keys\" <<'EOF'\n"),
           Ins("ssh", "heredoc", "ssh_public_keys", o.ssh_public_keys),
           Lit("ssh", "\nEOF\n"),
           Lit("ssh", "   chown \"$FIRSTUSER:$FIRSTUSER\" \"$FIRSTUSERHOME/.ssh/authorized_keys\"\n"),
           Lit("ssh", "   chmod 600 \"$FIRSTUSERHOME/.ssh/authorized_keys\"\n")>>
         \o (IF ~o.ssh_password_auth
             THEN <<Lit("ssh", "   echo 'PasswordAuthentication no' >>/etc/ssh/sshd_config\n")>>
             ELSE <<>>)
         \o <<Lit("ssh", "   systemctl enable ssh\n"),
              Lit("ssh", "fi\n")>>
    ELSE IF o.ssh_password_auth
    THEN <<Lit("ssh", "if [ -f /usr/lib/raspberrypi-sys-mods/imager_custom ]; then\n"),
           Lit("ssh", "   /usr/lib/raspberrypi-sys-mods/imager_custom enable_ssh\n"),
           Lit("ssh", "else\n"),
           Lit("ssh", "   systemctl enable ssh\n"),
           Lit("ssh", "fi\n")>>
    ELSE <<>>

\* customization.rs 211-273; rng is what hash_password's random source gives.
UserBlock(o, rng) ==
    LET user == o.user_name
        pwd == IF IsSome(o.password) THEN Unwrap(o.password) ELSE <<>>
        pwd_hash == hash_password(pwd, rng)
    IN  IF user # <<>> /\ pwd # <<>>
        THEN <<Lit("user", "if [ -f /usr/lib/userconf-pi/userconf ]; then\n"),
               Lit("user", "   /usr/lib/userconf-pi/userconf "),
               Ins("user", "word", "user_name", shell_escape(user)),
               Lit("user", " "),
               Ins("user", "word", "pwd_hash", shell_escape(pwd_hash)),
               Lit("user", "\n"),
               Lit("user", "else\n"),
               Lit("user", "   echo \"$FIRSTUSER:"),
               Ins("user", "dq", "pwd_hash", shell_escape(pwd_hash)),
               Lit("user", "\" | chpasswd -e\n"),
               Lit("user", "   if [ \"$FIRSTUSER\" != \""),
               Ins("user", "dq", "user_name", user),
               Lit("user", "\" ]; then\n"),
               Lit("user", "      usermod -l \""),
               Ins("user", "dq", "user_name", user),
               Lit("user", "\" \"$FIRSTUSER\"\n"),
               Lit("user", "      usermod -m -d \"/home/"),
               Ins("user", "dq", "user_name", user),
               Lit("user", "\" \""),
               Ins("user", "dq", "user_name", user),
               Lit("user", "\"\n"),
               Lit("user", "      groupmod -n \""),
               Ins("user", "dq", "user_name", user),
               Lit("user", "\" \"$FIRSTUSER\"\n"),
               Lit("user", "      if grep -q \"^autologin-user=\" /etc/lightdm/lightdm.conf ; then\n"),
               Lit("user", "         sed /etc/lightdm/lightdm.conf -i -e \"s/^autologin-user=.*/autologin-user="),
               Ins("user", "dq", "user_name", user),
               Lit("user", "/\"\n"),
               Lit("user", "      fi\n"),
               Lit("user", "      if [ -f /etc/systemd/system/getty@tty1.service.d/autologin.conf ]; then\n"),
               Lit("user", "         sed /etc/systemd/system/getty@tty1.service.d/autologin.conf -i -e \"s/$FIRSTUSER/"),
               Ins("user", "dq", "user_name", user),
               Lit("user", "/\"\n"),
               Lit("user", "      fi\n"),
               Lit("user", "      if [ -f /etc/sudoers.d/010_pi-nopasswd ]; then\n"),
               Lit("user", "         sed -i \"s/^$FIRSTUSER /"),
               Ins("user", "dq", "user_name", user),
               Lit("user", " /\" /etc/sudoers.d/010_pi-nopasswd\n"),
               Lit("user", "      fi\n"),
               Lit("user", "   fi\n"),
               Lit("user", "fi\n")>>
        ELSE <<>>

\* customization.rs 275-314
WifiBlock(o) ==
    LET scan_ssid == IF o.wifi_hidden THEN "scan_ssid=1" ELSE ""
        hidden_flag == IF o.wifi_hidden THEN "-h" ELSE ""
    IN  IF o.wifi_ssid # <<>>
        THEN <<Lit("wifi", "if [ -f /usr/lib/raspberrypi-sys-mods/imager_custom ]; then\n"),
               Lit("wifi", "   /usr/lib/raspberrypi-sys-mods/imager_custom set_wlan " \o hidden_flag \o " "),
               Ins("wifi", "word", "wifi_ssid", shell_escape(o.wifi_ssid)),
               Lit("wifi", " "),
               Ins("wifi", "word", "wifi_password", shell_escape(o.wifi_password)),
               Lit("wifi", " "),
               Ins("wifi", "word", "wifi_country", shell_escape(o.wifi_country)),
               Lit("wifi", "\n"),
               Lit("wifi", "else\n"),
               Lit("wifi", "cat >/etc/wpa_supplicant/wpa_supplicant.conf <<'WPAEOF'\n")>>
             \o (IF o.wifi_country # <<>>
                 THEN <<Lit("wifi", "country="),
                        Ins("wifi", "heredoc", "wifi_country", o.wifi_country),
                        Lit("wifi", "\n")>>
                 ELSE <<>>)
             \o <<Lit("wifi", "ctrl_interface=DIR=/var/run/wpa_supplicant GROUP=netdev\n"),
                  Lit("wifi", "update_config=1\n"),
                  Lit("wifi", "network={\n"),
                  Lit("wifi", "    ssid=\""),
                  Ins("wifi", "heredoc", "wifi_ssid", o.wifi_ssid),
                  Lit("wifi", "\"\n"),
                  Lit("wifi", "    psk=\""),
                  Ins("wifi", "heredoc", "wifi_password", o.wifi_password),
                  Lit("wifi", "\"\n"),
                  Lit("wifi", "    " \o scan_ssid \o "\n"),
                  Lit("wifi", "}\n"),
                  Lit("wifi", "WPAEOF\n"),
                  Lit("wifi", "   chmod 600 /etc/wpa_supplicant/wpa_supplicant.conf\n"),
                  Lit("wifi", "   rfkill unblock wifi || true\n"),
                  Lit("wifi", "   for filename in /var/lib/systemd/rfkill/*:wlan ; do\n"),
                  Lit("wifi", "       echo 0 > $filename\n"),
                  Lit("wifi", "   done\n"),
                  Lit("wifi", "fi\n")>>
        ELSE IF o.wifi_country # <<>>
        THEN <<Lit("wifi", "rfkill unblock wifi || true\n"),
               Lit("wifi", "for filename in /var/lib/systemd/rfkill/*:wlan ; do\n"),
               Lit("wifi", "  echo 0 > $filename\n"),
               Lit("wifi", "done\n")>>
        ELSE <<>>

\* customization.rs 316-364
LocaleBlock(o) ==
    IF o.keyboard_layout = <<>> /\ o.timezone = <<>> /\ o.locale = <<>> THEN <<>>
    ELSE <<Lit("locale", "if [ -f /usr/lib/raspberrypi-sys-mods/imager_custom ]; then\n")>>
         \o (IF o.keyboard_layout # <<>>
             THEN <<Lit("locale", "   /usr/lib/raspberrypi-sys-mods/imager_custom set_keymap "),
                    Ins("locale", "word", "keyboard_layout", shell_escape(o.keyboard_layout)),
                    Lit("locale", "\n")>>
             ELSE <<>>)
         \o (IF o.timezone # <<>>
             THEN <<Lit("locale", "   /usr/lib/raspberrypi-sys-mods/imager_custom set_timezone "),
                    Ins("locale", "word", "timezone", shell_escape(o.timezone)),
                    Lit("locale", "\n")>>
             ELSE <<>>)
         \o <<Lit("locale", "else\n")>>
         \o (IF o.timezone # <<>>
             THEN <<Lit("locale", "   rm -f /etc/localtime\n"),
                    Lit("locale", "   echo \""),
                    Ins("locale", "dq", "timezone", o.timezone),
                    Lit("locale", "\" >/etc/timezone\n"),
                    Lit("locale", "   dpkg-reconfigure -f noninteractive tzdata\n")>>
             ELSE <<>>)
         \o (IF o.keyboard_layout # <<>>
             THEN <<Lit("locale", "cat >/etc/default/keyboard <<'KBEOF'\n"),
                    Lit("locale", "XKBMODEL=\"pc105\"\n"),
                    Lit("locale", "XKBLAYOUT=\""),
                    Ins("locale", "heredoc", "keyboard_layout", o.keyboard_layout),
                    Lit("locale", "\"\n"),
                    Lit("locale", "XKBVARIANT=\"\"\n"),
                    Lit("locale", "XKBOPTIONS=\"\"\n"),
                    Lit("locale", "\n"),
                    Lit("locale", "KBEOF\n"),
                    Lit("locale", "   dpkg-reconfigure -f noninteractive keyboard-configuration\n")>>
             ELSE <<>>)
         \o (IF o.locale # Default.locale
             THEN <<Lit("locale", "sed -i 's/^# *"),
                    Ins("locale", "sq", "locale", regex_escape(o.locale)),
                    Lit("locale", " /"),
                    Ins("locale", "sq", "locale", o.locale),
                    Lit("locale", " /' /etc/locale.gen\n"),
                    Lit("locale", "locale-gen\n"),
                    Lit("locale", "update-locale LANG="),
                    Ins("locale", "word", "locale", o.locale),
                    Lit("locale", "\n")>>
             ELSE <<>>)
         \o <<Lit("locale", "fi\n")>>

\* customization.rs 366-369
Cleanup ==
    <<Lit("cleanup", "rm -f /boot/firstrun.sh\n"),
      Lit("cleanup", "sed -i 's| systemd.run.*||g' /boot/cmdline.txt\n"),
      Lit("cleanup", "exit 0\n")>>

\* CustomizationOptions::generate_firstrun_script (customization.rs 152-372)
generate_firstrun_script(o, rng) ==
    Header \o HostnameBlock(o) \o FirstUser \o SshBlock(o) \o UserBlock(o, rng)
    \o WifiBlock(o) \o LocaleBlock(o) \o Cleanup

\* The text of a script: the tokens of its pieces, in order.
RECURSIVE ScriptText(_)
ScriptText(pieces) ==
    IF pieces = <<>> THEN <<>> ELSE Head(pieces).val \o ScriptText(Tail(pieces))

\* The options the script is made for: the defaults with the fields of one
\* section set. Names are made of an ordinary character and the characters
\* the shell treats specially.
NameTokens == {"a", "\"", "$", "'"}
RECURSIVE NamesUpTo(_)
NamesUpTo(n) ==
    IF n = 0 THEN {<<>>}
    ELSE LET shorter == NamesUpTo(n - 1)
         IN  shorter \cup {Append(s, c) : s \in {t \in shorter : Len(t) = n - 1},
                                          c \in NameTokens}
Names == NamesUpTo(MaxName)
Passwords == {None, Some(<<>>), Some(<<"hunter2">>), Some(<<"pa", "$", "w0rd">>)}
KeyTexts == {<<>>, <<"ssh-ed25519 AAAA a@b">>, <<"k", "'", "; reboot #">>}
Ssids == {<<>>, <<"net">>, <<"my", "\"", "net">>}
Psks == {<<>>, <<"psk", "$", "1">>}
Countries == {<<>>, <<"GB">>}
Timezones == {<<>>, <<"Europe/London">>, <<"$", "TZ">>}
Layouts == {<<>>, <<"gb">>, <<"us">>}
Locales == {<<>>, <<"en_GB", ".", "UTF-8">>, <<"de_DE", ".", "UTF-8">>}
Customizations ==
    {[Default EXCEPT !.hostname = n] : n \in Names \cup {<<"pi-lab">>}}
    \cup {[Default EXCEPT !.user_name = n, !.password = p] :
             n \in Names \cup {<<"pi">>}, p \in Passwords}
    \cup {[Default EXCEPT !.ssh_enabled = e, !.ssh_password_auth = a,
                          !.ssh_public_keys = k] :
             e \in BOOLEAN, a \in BOOLEAN, k \in KeyTexts}
    \cup {[Default EXCEPT !.wifi_ssid = s, !.wifi_password = p, !.wifi_country = c,
                          !.wifi_hidden = h] :
             s \in Ssids, p \in Psks, c \in Countries, h \in BOOLEAN}
    \cup {[Default EXCEPT !.timezone = t, !.keyboard_layout = k, !.locale = l] :
             t \in Timezones, k \in Layouts, l \in Locales}
    \cup {[Default EXCEPT !.hostname = n, !.telemetry = t, !.eject_finished = e] :
             n \in {<<"raspberrypi">>, <<"pi-lab">>}, t \in BOOLEAN, e \in BOOLEAN}

\* ------------------------------------------------------------------ the supervisor
\* Longest output of one worker process, in lines.
MaxLines == 2
\* The most invocations of the worker in one session of the supervisor.
MaxAttempts == 2

\* App::new (main.rs 114-150), the fields the write views use.
AppNew ==
    [current_view |-> "DeviceSelection",
     error_message |-> None,
     should_quit |-> FALSE,
     selected_os |-> None,
     selected_drive |-> None,
     drive_list |-> <<>>,
     drive_list_state |-> None,
     write_progress |-> 0,
     verify_progress |-> 0,
     write_status |-> "",
     write_phase |-> None,
     write_task |-> FALSE,
     abort_handle |-> FALSE,
     worker_args |-> None]

\* The supervisor before anything happened in it.
SIdle ==
    /\ app = AppNew
    /\ lpc = "top" /\ rx = <<>>
    /\ child = "none" /\ child_status = None /\ helper = ""
    /\ pipe = <<>> /\ produced = <<>>
    /\ reader = "none" /\ relayed = <<>> /\ aborted = FALSE
    /\ attempts = 0 /\ prevs = <<>> /\ tried = <<>>

\* The worker process before it parsed anything, with no arguments.
WIdle ==
    /\ args = <<>> /\ src = <<>>
    /\ image_url = "" /\ device_path = "" /\ sha256 = None /\ size = None
    /\ options = Default
    /\ mpc = "parse" /\ exit_code = None /\ out = <<>> /\ chan = <<>>
    /\ wpc = "idle" /\ result = None /\ pos = 0
    /\ bw = <<>> /\ dev = <<>> /\ disk = <<>>
    /\ hasher = Sha256New /\ total_written = 0
    /\ verify_hasher = Sha256New /\ total_read = 0
    /\ source_hash_hex = ""
    /\ ops = <<>> /\ sent = <<>>
    /\ mount_dir = FALSE /\ mounted = FALSE /\ body_ok = TRUE

\* The settings file (customization.rs 107-114, 116-127): whether HOME is
\* set, whether the file exists, whether it can be opened, and its content.
\* A content is JSON or not, and when it is, an object with some keys.
Content(syntax, value) == [syntax |-> syntax, value |-> value]
Garbage == Content(FALSE, <<>>)
ConfigFile(home, exists, readable, content) ==
    [home |-> home, exists |-> exists, readable |-> readable, content |-> content]
NoConfig == ConfigFile(FALSE, FALSE, FALSE, Garbage)

\* No script has been asked for and no settings have been loaded.
CIdle ==
    /\ custom = Default /\ script = None /\ again = None
    /\ config = NoConfig /\ loaded = FALSE

\* App::new (main.rs 112-150): the fields of the views as they are built.
NavNew ==
    AppNew @@
    [os_list |-> None, is_loading |-> TRUE,
     list_state |-> None, navigation_stack |-> <<>>, breadcrumbs |-> <<>>,
     selection_stack |-> <<>>,
     selected_device |-> None, device_list_state |-> None,
     customization_ui |-> [input_mode |-> "Navigation"],
     customization_menu_state |-> None, customization_sub_menu_state |-> None,
     in_customization_submenu |-> FALSE,
     popup |-> None, popup_list_state |-> None, popup_items |-> <<>>,
     popup_filter |-> <<>>]

\* The views before anything happened in them.
NIdle == nav = NavNew /\ attempt = "none" /\ writes = 0

\* apply_customization has not been called.
PIdle ==
    /\ apc = "call" /\ target = <<>> /\ boot_partition = <<>>
    /\ mount_point = FALSE /\ boot_mounted = FALSE
    /\ mount_status = None /\ umount_status = None
    /\ closure = None /\ returned = None
    /\ cmdline = None /\ original = None /\ firstrun = FALSE
    /\ runs = 0

WInit ==
    /\ SIdle
    /\ NIdle
    /\ CIdle
    /\ PIdle
    /\ \E i \in Inputs : src = i.src /\ args = i.args
    /\ image_url = "" /\ device_path = "" /\ sha256 = None /\ size = None
    /\ options = Default
    /\ mpc = "parse" /\ exit_code = None /\ out = <<>> /\ chan = <<>>
    /\ wpc = "idle" /\ result = None /\ pos = 0
    /\ bw = <<>> /\ dev = <<>> /\ disk = <<>>
    /\ hasher = Sha256New /\ total_written = 0
    /\ verify_hasher = Sha256New /\ total_read = 0
    /\ source_hash_hex = ""
    /\ ops = <<>> /\ sent = <<>>
    /\ mount_dir = FALSE /\ mounted = FALSE /\ body_ok = TRUE

transferVars == <<wpc, result, pos, bw, dev, disk, hasher, total_written,
                  verify_hasher, total_read, source_hash_hex, ops, sent,
                  mount_dir, mounted, body_ok>>
parsedVars == <<image_url, device_path, sha256, size, options>>

\* worker.rs 29-70: parse, then exit(1) when the image or the device is missing.
WorkerArgError ==
    /\ mpc = "parse"
    /\ LET p == ParseArgs(args, 1, EmptyParse)
       IN  p.image_url = "" \/ p.device_path = ""
    /\ mpc' = "exited"
    /\ exit_code' = Some(1)
    /\ UNCHANGED <<args, src, out, chan, parsedVars, transferVars>>
    /\ UNCHANGED <<svars, cvars, pvars, nvars>>

\* worker.rs 72-122: decode the options, build the descriptors, spawn the task.
WorkerSpawn ==
    /\ mpc = "parse"
    /\ LET p == ParseArgs(args, 1, EmptyParse)
       IN  /\ p.image_url # "" /\ p.device_path # ""
           /\ image_url' = p.image_url
           /\ device_path' = p.device_path
           /\ sha256' = p.sha256
           /\ size' = p.size
           /\ options' = DecodeOptions(p.options_b64)
    /\ mpc' = "loop"
    /\ wpc' = "start"
    /\ UNCHANGED <<args, src, exit_code, out, chan, result, pos, bw, dev, disk,
                   hasher, total_written, verify_hasher, total_read,
                   source_hash_hex, ops, sent, mount_dir, mounted, body_ok>>
    /\ UNCHANGED <<svars, cvars, pvars, nvars>>

\* worker.rs 126-137: AppMessage to WorkerMessage.
ToWorkerMessage(m) ==
    CASE m.type = "WriteProgress" -> Ev("Progress", m.num, "")
      [] m.type = "VerifyProgress" -> Ev("VerifyProgress", m.num, "")
      [] m.type = "WriteStatus" -> Ev("Status", 0, m.str)
      [] m.type = "WritingPhase" ->
            Ev("Phase", 0, IF m.str = "Writing" THEN "Writing" ELSE "Verifying")
      [] m.type = "WriteError" -> Ev("Error", 0, m.str)
      [] m.type = "WriteFinished" -> Ev("Finished", 0, "")

\* What the process exits with when run_worker returns to main (main.rs
\* 606-608: return Ok(())).
ReturnStatus(terminal) == 0

\* worker.rs 125-146: receive one message, print it, leave the loop on a
\* terminal message; run_worker then returns and main returns Ok(()).
\* (recv() giving None needs the task to end without a terminal message,
\* which the task never does.)
WorkerRecv ==
    /\ mpc = "loop"
    /\ chan # <<>>
    /\ LET m == ToWorkerMessage(Head(chan))
       IN  /\ out' = Append(out, JsonLine(m))
           /\ chan' = Tail(chan)
           /\ IF IsTerminal(m)
              THEN mpc' = "exited" /\ exit_code' = Some(ReturnStatus(m))
              ELSE UNCHANGED <<mpc, exit_code>>
    /\ UNCHANGED <<args, src, parsedVars, transferVars>>
    /\ UNCHANGED <<svars, cvars, pvars, nvars>>

\* ------------------------------------------------------------------ write_image
Send(msgs) == /\ chan' = chan \o msgs
              /\ sent' = sent \o msgs

Ok == [ok |-> TRUE, msg |-> ""]
Err(m) == [ok |-> FALSE, msg |-> m]

\* Faulty variant of Fail: the error is noted and the step is tried again.
FailAndRetry(m) == /\ result' = Some(Err(m))
                   /\ UNCHANGED wpc

\* A `?` or `return Err(..)`: the function returns at once.
Fail(m) == /\ wpc' = "returned"
           /\ result' = Some(Err(m))

Running(at) == mpc = "loop" /\ wpc = at

workerVars == <<args, src, parsedVars, mpc, exit_code, out>>
installVars == <<mount_dir, mounted, body_ok>>
hashVars == <<hasher, total_written, verify_hasher, total_read, source_hash_hex>>
deviceVars == <<bw, dev, disk, ops>>

\* writer.rs 22: os.extract_size.unwrap_or(0)
extract_size == IF IsSome(size) THEN Unwrap(size) ELSE 0

\* writer.rs 129 and 239: the percentage, as the gauge truncates it.
Percent(n, total) == (n * 100) \div total

\* Faulty variant of ClampProgress: the percentage is passed on unclamped.
NoClamp(progress) == progress

\* writer.rs 131: clamp to 99% until synced and verified.
ClampProgress(progress) == IF progress > 99 THEN 99 ELSE progress

\* writer.rs 25-32. (os.url is always Some in the worker, worker.rs 85.)
Start ==
    /\ Running("start")
    /\ Send(<<WriteProgress(0), WritingPhase("Writing"),
              WriteStatus("Starting download...")>>)
    /\ wpc' = "download"
    /\ UNCHANGED <<workerVars, result, pos, deviceVars, hashVars, installVars>>
    /\ UNCHANGED <<svars, cvars, pvars, nvars>>

\* writer.rs 40-44: the request fails; it always does for a string that is
\* no absolute URL.
DownloadSendFails ==
    /\ Running("download")
    /\ Fail("Failed to download")
    /\ UNCHANGED <<workerVars, chan, sent, pos, deviceVars, hashVars, installVars>>
    /\ UNCHANGED <<svars, cvars, pvars, nvars>>

\* writer.rs 46-48
DownloadBadStatus ==
    /\ Running("download")
    /\ image_url \in Urls
    /\ Fail("Download failed with status")
    /\ UNCHANGED <<workerVars, chan, sent, pos, deviceVars, hashVars, installVars>>
    /\ UNCHANGED <<svars, cvars, pvars, nvars>>

DownloadOk ==
    /\ Running("download")
    /\ image_url \in Urls
    /\ wpc' = "decoder"
    /\ UNCHANGED <<workerVars, chan, sent, result, pos, deviceVars, hashVars, installVars>>
    /\ UNCHANGED <<svars, cvars, pvars, nvars>>

\* Faulty variant of DecoderFor: a .zip path is taken for an uncompressed image.
DecoderForNoZip(path) ==
    IF EndsWith(path, ".xz") THEN "xz"
    ELSE IF EndsWith(path, ".gz") THEN "gzip"
    ELSE IF EndsWith(path, ".zst") THEN "zstd"
    ELSE "none"

\* writer.rs 62-75: the decoder chosen from the extension of the URL's path;
\* "zip" stands for the early return.
DecoderFor(path) ==
    IF EndsWith(path, ".xz") THEN "xz"
    ELSE IF EndsWith(path, ".gz") THEN "gzip"
    ELSE IF EndsWith(path, ".zst") THEN "zstd"
    ELSE IF EndsWith(path, ".zip") THEN "zip"
    ELSE "none"

\* writer.rs 57-75
SelectDecoder ==
    /\ Running("decoder")
    /\ IF DecoderFor(UrlPath(image_url)) = "zip"
       THEN Fail("ZIP files are not supported yet")
       ELSE wpc' = "open" /\ UNCHANGED result
    /\ UNCHANGED <<workerVars, chan, sent, pos, deviceVars, hashVars, installVars>>
    /\ UNCHANGED <<svars, cvars, pvars, nvars>>

\* writer.rs 78-97
OpenDeviceOk ==
    /\ Running("open")
    /\ ops' = Append(ops, "open")
    /\ wpc' = "write_loop"
    /\ UNCHANGED <<workerVars, chan, sent, result, pos, bw, dev, disk, hashVars, installVars>>
    /\ UNCHANGED <<svars, cvars, pvars, nvars>>

OpenDeviceFails ==
    /\ Running("open")
    /\ Fail("Failed to open device")
    /\ UNCHANGED <<workerVars, chan, sent, pos, deviceVars, hashVars, installVars>>
    /\ UNCHANGED <<svars, cvars, pvars, nvars>>

\* What the device keeps of the bytes written to it: the bytes, or, on a
\* faulty medium, the bytes with the first one flipped.
Store(bytes, faulty) ==
    IF faulty /\ bytes # <<>> THEN <<1 - Head(bytes)>> \o Tail(bytes) ELSE bytes

\* tokio BufWriter::write_all with a capacity of BufLen: the held bytes go to
\* the device first when the chunk does not fit; a chunk as long as the
\* capacity goes to the device directly.
BufNeedsFlush(held, chunk) == Len(held) + Len(chunk) > BufLen
BufDirect(chunk) == Len(chunk) >= BufLen
BufTouchesDevice(held, chunk) ==
    (BufNeedsFlush(held, chunk) /\ held # <<>>) \/ BufDirect(chunk)

BufWrite(held, device, chunk, faulty) ==
    LET flushed == BufNeedsFlush(held, chunk)
        held1 == IF flushed THEN <<>> ELSE held
        dev1 == IF flushed THEN device \o Store(held, faulty) ELSE device
    IN  IF BufDirect(chunk)
        THEN [bw |-> held1, dev |-> dev1 \o Store(chunk, faulty)]
        ELSE [bw |-> held1 \o chunk, dev |-> dev1]

\* writer.rs 120-149: the events of one reporting tick of the write loop.
WriteTick(written) ==
    IF extract_size > 0
    THEN <<WriteProgress(ClampProgress(Percent(written, extract_size))),
           WriteStatus("Writing... %")>>
    ELSE <<WriteStatus("Writing... MB")>>

\* writer.rs 100-103
ReadFails ==
    /\ Running("write_loop")
    /\ Fail("Failed to read/decompress image stream")
    /\ UNCHANGED <<workerVars, chan, sent, pos, deviceVars, hashVars, installVars>>
    /\ UNCHANGED <<svars, cvars, pvars, nvars>>

\* writer.rs 105-107
ReadEnd ==
    /\ Running("write_loop")
    /\ pos = Len(src)
    /\ wpc' = "flush"
    /\ UNCHANGED <<workerVars, chan, sent, result, pos, deviceVars, hashVars, installVars>>
    /\ UNCHANGED <<svars, cvars, pvars, nvars>>

\* writer.rs 100-150: one chunk read, written, hashed and counted.
WriteChunk ==
    /\ Running("write_loop")
    /\ \E n \in 1..Min(BufLen, Len(src) - pos), faulty \in BOOLEAN, tick \in BOOLEAN :
         LET chunk == SubSeq(src, pos + 1, pos + n)
             w == BufWrite(bw, dev, chunk, faulty)
         IN  /\ pos' = pos + n
             /\ bw' = w.bw
             /\ dev' = w.dev
             /\ ops' = IF BufTouchesDevice(bw, chunk) THEN Append(ops, "write") ELSE ops
             /\ hasher' = Sha256Update(hasher, chunk)
             /\ total_written' = total_written + n
             /\ IF tick THEN Send(WriteTick(total_written + n))
                        ELSE UNCHANGED <<chan, sent>>
    /\ UNCHANGED <<workerVars, wpc, result, disk, verify_hasher, total_read,
                   source_hash_hex, installVars>>
    /\ UNCHANGED <<svars, cvars, pvars, nvars>>

\* writer.rs 109-112: the device refuses a write.
WriteFails ==
    /\ Running("write_loop")
    /\ \E n \in 1..Min(BufLen, Len(src) - pos) :
         /\ BufTouchesDevice(bw, SubSeq(src, pos + 1, pos + n))
         /\ pos' = pos + n
    /\ ops' = Append(ops, "write")
    /\ Fail("Failed to write to storage device")
    /\ UNCHANGED <<workerVars, chan, sent, bw, dev, disk, hashVars, installVars>>
    /\ UNCHANGED <<svars, cvars, pvars, nvars>>

\* writer.rs 152-160
FlushOk ==
    /\ Running("flush")
    /\ \E faulty \in BOOLEAN : dev' = dev \o Store(bw, faulty)
    /\ bw' = <<>>
    /\ ops' = IF bw # <<>> THEN ops \o <<"write", "flush">> ELSE Append(ops, "flush")
    /\ Send(<<WriteStatus("Syncing to disk...")>>)
    /\ wpc' = "sync"
    /\ UNCHANGED <<workerVars, result, pos, disk, hashVars, installVars>>
    /\ UNCHANGED <<svars, cvars, pvars, nvars>>

FlushFails ==
    /\ Running("flush")
    /\ Fail("Failed to flush write buffer")
    /\ UNCHANGED <<workerVars, chan, sent, pos, deviceVars, hashVars, installVars>>
    /\ UNCHANGED <<svars, cvars, pvars, nvars>>

\* Faulty variant of SyncedEvents: the phase change is not announced.
SyncedEventsNoPhase == <<WriteStatus("Verifying download...")>>

\* writer.rs 171-177: what follows a successful sync.
SyncedEvents == <<WritingPhase("Verifying"), WriteStatus("Verifying download...")>>

\* writer.rs 163-177
SyncOk ==
    /\ Running("sync")
    /\ disk' = dev
    /\ ops' = Append(ops, "sync")
    /\ Send(SyncedEvents)
    /\ wpc' = "check"
    /\ UNCHANGED <<workerVars, result, pos, bw, dev, hashVars, installVars>>
    /\ UNCHANGED <<svars, cvars, pvars, nvars>>

SyncFails ==
    /\ Running("sync")
    /\ Fail("Failed to sync data to device")
    /\ UNCHANGED <<workerVars, chan, sent, pos, deviceVars, hashVars, installVars>>
    /\ UNCHANGED <<svars, cvars, pvars, nvars>>

\* Faulty variant of ExpectedMatches: the expected hash is not looked at.
ExpectedIgnored(hex, expected) == TRUE

\* writer.rs 184-185: no expected hash, or the same hash whatever the case.
ExpectedMatches(hex, expected) ==
    \/ ~IsSome(expected)
    \/ ToLowercase(hex) = ToLowercase(Unwrap(expected))

\* writer.rs 179-198
CheckExpected ==
    /\ Running("check")
    /\ source_hash_hex' = HexEncode(hasher)
    /\ IF ExpectedMatches(HexEncode(hasher), sha256)
       THEN /\ Send(<<WriteStatus("Verifying write (reading back)...")>>)
            /\ wpc' = "seek"
            /\ UNCHANGED result
       ELSE /\ Fail("Download verification failed!")
            /\ UNCHANGED <<chan, sent>>
    /\ UNCHANGED <<workerVars, pos, deviceVars, hasher, total_written,
                   verify_hasher, total_read, installVars>>
    /\ UNCHANGED <<svars, cvars, pvars, nvars>>

\* writer.rs 201-209
SeekOk ==
    /\ Running("seek")
    /\ ops' = Append(ops, "seek")
    /\ verify_hasher' = Sha256New
    /\ total_read' = 0
    /\ wpc' = "verify_loop"
    /\ UNCHANGED <<workerVars, chan, sent, result, pos, bw, dev, disk, hasher,
                   total_written, source_hash_hex, installVars>>
    /\ UNCHANGED <<svars, cvars, pvars, nvars>>

SeekFails ==
    /\ Running("seek")
    /\ Fail("Failed to seek to start of device for verification")
    /\ UNCHANGED <<workerVars, chan, sent, pos, deviceVars, hashVars, installVars>>
    /\ UNCHANGED <<svars, cvars, pvars, nvars>>

\* writer.rs 238-247: the events of one reporting tick of the read-back loop.
VerifyTick(read) ==
    IF extract_size > 0
    THEN <<VerifyProgressMsg(Percent(read, extract_size)), WriteStatus("Verifying... %")>>
    ELSE <<>>

\* writer.rs 212-215
VerifyDone ==
    /\ Running("verify_loop")
    /\ total_written - total_read = 0
    /\ wpc' = "compare"
    /\ UNCHANGED <<workerVars, chan, sent, result, pos, deviceVars, hashVars, installVars>>
    /\ UNCHANGED <<svars, cvars, pvars, nvars>>

\* writer.rs 217-221: the read fails.
VerifyReadFails ==
    /\ Running("verify_loop")
    /\ total_written - total_read # 0
    /\ ops' = Append(ops, "read")
    /\ Fail("Failed to read from device for verification")
    /\ UNCHANGED <<workerVars, chan, sent, pos, bw, dev, disk, hashVars, installVars>>
    /\ UNCHANGED <<svars, cvars, pvars, nvars>>

\* writer.rs 223-225: the device ends before the bytes written were read
\* back (a device removed or truncated after the write).
VerifyEof ==
    /\ Running("verify_loop")
    /\ total_written - total_read # 0
    /\ ops' = Append(ops, "read")
    /\ Fail("Unexpected EOF during verification")
    /\ UNCHANGED <<workerVars, chan, sent, pos, bw, dev, disk, hashVars, installVars>>
    /\ UNCHANGED <<svars, cvars, pvars, nvars>>

\* What the device holds after the bytes of the image: it is larger than
\* the image.
Trailing == <<1>>

\* Faulty variant of to_read: a full buffer whatever remains.
to_read_full(len, remaining) == len

\* writer.rs 217: how much one read of the read-back asks for.
to_read(len, remaining) == Min(len, remaining)

\* writer.rs 217-249: one read of at most min(buffer, remaining) bytes.
VerifyChunk ==
    /\ Running("verify_loop")
    /\ total_written - total_read # 0
    /\ \E n \in 1..Min(to_read(BufLen, total_written - total_read),
                       Len(dev \o Trailing) - total_read),
          tick \in BOOLEAN :
         /\ verify_hasher' =
                Sha256Update(verify_hasher,
                             SubSeq(dev \o Trailing, total_read + 1, total_read + n))
         /\ total_read' = total_read + n
         /\ IF tick THEN Send(VerifyTick(total_read + n))
                    ELSE UNCHANGED <<chan, sent>>
    /\ ops' = Append(ops, "read")
    /\ UNCHANGED <<workerVars, wpc, result, pos, bw, dev, disk, hasher,
                   total_written, source_hash_hex, installVars>>
    /\ UNCHANGED <<svars, cvars, pvars, nvars>>

\* Faulty variants of OnDiskMatches: the read-back hash compared with the
\* expected hash (and with nothing when none was supplied), and no
\* comparison at all.
OnDiskMatchesExpected(on_disk_hex, source_hex) ==
    ~IsSome(sha256) \/ on_disk_hex = ToLowercase(Unwrap(sha256))
OnDiskMatchesAlways(on_disk_hex, source_hex) == TRUE

\* writer.rs 252-254: the read-back hash against the source hash.
OnDiskMatches(on_disk_hex, source_hex) == on_disk_hex = source_hex

\* writer.rs 252-260
Compare ==
    /\ Running("compare")
    /\ IF OnDiskMatches(HexEncode(verify_hasher), source_hash_hex)
       THEN wpc' = "verified" /\ UNCHANGED result
       ELSE Fail("Write verification failed!")
    /\ UNCHANGED <<workerVars, chan, sent, pos, deviceVars, hashVars, installVars>>
    /\ UNCHANGED <<svars, cvars, pvars, nvars>>

\* ------------------------------------------------------------------ apply_customization
\* The worker hands the settings to the transfer (worker.rs 119); the
\* installer is invoked once the read-back hash has matched, before the
\* terminal event, and its error is the transfer's error.
InstallerCall ==
    /\ Running("verified")
    /\ wpc' = "install"
    /\ UNCHANGED <<workerVars, chan, sent, result, pos, deviceVars, hashVars, installVars>>
    /\ UNCHANGED <<svars, cvars, pvars, nvars>>

InstallerReturn(r) ==
    IF r.ok THEN wpc' = "finish" /\ UNCHANGED result
    ELSE Fail(r.msg)

\* post_process.rs 8-10
InstallNotNeeded ==
    /\ Running("install")
    /\ ~needs_customization(options)
    /\ InstallerReturn(Ok)
    /\ UNCHANGED <<workerVars, chan, sent, pos, deviceVars, hashVars, installVars>>
    /\ UNCHANGED <<svars, cvars, pvars, nvars>>

\* post_process.rs 12-23: the mount point is created.
InstallMkdir ==
    /\ Running("install")
    /\ needs_customization(options)
    /\ mount_dir' = TRUE
    /\ wpc' = "mount"
    /\ UNCHANGED <<workerVars, chan, sent, result, pos, deviceVars, hashVars,
                   mounted, body_ok>>
    /\ UNCHANGED <<svars, cvars, pvars, nvars>>

\* post_process.rs 16: create_dir_all fails.
InstallMkdirFails ==
    /\ Running("install")
    /\ needs_customization(options)
    /\ InstallerReturn(Err("Failed to create temp mount point"))
    /\ UNCHANGED <<workerVars, chan, sent, pos, deviceVars, hashVars, installVars>>
    /\ UNCHANGED <<svars, cvars, pvars, nvars>>

\* post_process.rs 27-35
MountOk ==
    /\ Running("mount")
    /\ mounted' = TRUE
    /\ wpc' = "body"
    /\ UNCHANGED <<workerVars, chan, sent, result, pos, deviceVars, hashVars,
                   mount_dir, body_ok>>
    /\ UNCHANGED <<svars, cvars, pvars, nvars>>

\* post_process.rs 31-35: mount cannot be run, or exits non-zero.
MountFails ==
    /\ Running("mount")
    /\ InstallerReturn(Err("Failed to mount boot partition"))
    /\ UNCHANGED <<workerVars, chan, sent, pos, deviceVars, hashVars, installVars>>
    /\ UNCHANGED <<svars, cvars, pvars, nvars>>

\* post_process.rs 38-76: the closure writing firstrun.sh and cmdline.txt.
InstallBody ==
    /\ Running("body")
    /\ body_ok' \in BOOLEAN
    /\ wpc' = "umount"
    /\ UNCHANGED <<workerVars, chan, sent, result, pos, deviceVars, hashVars,
                   mount_dir, mounted>>
    /\ UNCHANGED <<svars, cvars, pvars, nvars>>

\* post_process.rs 79-91: umount succeeds, the directory is removed, the
\* closure's result is returned.
UmountOk ==
    /\ Running("umount")
    /\ mounted' = FALSE
    /\ mount_dir' = FALSE
    /\ InstallerReturn(IF body_ok THEN Ok ELSE Err("Failed to write firstrun.sh"))
    /\ UNCHANGED <<workerVars, chan, sent, pos, deviceVars, hashVars, body_ok>>
    /\ UNCHANGED <<svars, cvars, pvars, nvars>>

\* post_process.rs 79-89: umount exits non-zero; remove_dir of the busy mount
\* point fails and its error is dropped.
UmountFails ==
    /\ Running("umount")
    /\ InstallerReturn(Err("Failed to unmount. Check if busy."))
    /\ UNCHANGED <<workerVars, chan, sent, pos, deviceVars, hashVars, installVars>>
    /\ UNCHANGED <<svars, cvars, pvars, nvars>>

\* ------------------------------------------------------------------ the end of the task
\* writer.rs 262-265
Finish ==
    /\ Running("finish")
    /\ Send(<<WriteFinished>>)
    /\ result' = Some(Ok)
    /\ wpc' = "returned"
    /\ UNCHANGED <<workerVars, pos, deviceVars, hashVars, installVars>>
    /\ UNCHANGED <<svars, cvars, pvars, nvars>>

\* Faulty variant of ErrorEvents: the error of write_image is dropped.
ErrorEventsDropped(r) == <<>>

\* worker.rs 118-122: the spawned task turns an error into a WriteError.
ErrorEvents(r) == IF r.ok THEN <<>> ELSE <<WriteError(r.msg)>>

TaskEnd ==
    /\ Running("returned")
    /\ Send(ErrorEvents(Unwrap(result)))
    /\ wpc' = "end"
    /\ UNCHANGED <<workerVars, result, pos, deviceVars, hashVars, installVars>>
    /\ UNCHANGED <<svars, cvars, pvars, nvars>>

WNext ==
    \/ WorkerArgError \/ WorkerSpawn \/ WorkerRecv
    \/ Start \/ DownloadSendFails \/ DownloadBadStatus \/ DownloadOk
    \/ SelectDecoder \/ OpenDeviceOk \/ OpenDeviceFails
    \/ ReadFails \/ ReadEnd \/ WriteChunk \/ WriteFails
    \/ FlushOk \/ FlushFails \/ SyncOk \/ SyncFails
    \/ CheckExpected \/ SeekOk \/ SeekFails
    \/ VerifyDone \/ VerifyReadFails \/ VerifyEof \/ VerifyChunk
    \/ Compare \/ InstallerCall
    \/ InstallNotNeeded \/ InstallMkdir \/ InstallMkdirFails
    \/ MountOk \/ MountFails \/ InstallBody \/ UmountOk \/ UmountFails
    \/ Finish \/ TaskEnd

Spec == WInit /\ [][WNext]_vars

\* ------------------------------------------------------------------ the reader and the event loop
\* main.rs 788-810: WorkerMessage to AppMessage.
ToAppMessage(m) ==
    CASE m.type = "Progress" -> WriteProgress(m.num)
      [] m.type = "VerifyProgress" -> VerifyProgressMsg(m.num)
      [] m.type = "Status" -> WriteStatus(m.str)
      [] m.type = "Phase" ->
            WritingPhase(IF m.str = "Verifying" THEN "Verifying" ELSE "Writing")
      [] m.type = "Error" -> WriteError(m.str)
      [] m.type = "Finished" -> WriteFinished

\* main.rs 854-876: what one message does to the App.
OnMessage(a, m) ==
    CASE m.type = "WriteProgress" -> [a EXCEPT !.write_progress = m.num]
      [] m.type = "VerifyProgress" -> [a EXCEPT !.verify_progress = m.num]
      [] m.type = "WritingPhase" -> [a EXCEPT !.write_phase = Some(m.str)]
      [] m.type = "WriteStatus" -> [a EXCEPT !.write_status = m.str]
      [] m.type = "WriteFinished" ->
            [a EXCEPT !.write_progress = 100, !.verify_progress = 100,
                      !.write_status = "Finished", !.current_view = "Finished",
                      !.write_phase = None]
      [] m.type = "WriteError" ->
            [a EXCEPT !.error_message = Some(m.str),
                      !.current_view = "StorageSelection"]

\* ------------------------------------------------------------------ App
\* App::start_writing (main.rs 538-573): the argument vector.
WorkerArgs(os, drive) ==
    <<"rpi-imager-tui", "--worker", "--device", drive.name, "--options", OptionsBlob>>
    \o (IF IsSome(os.url) THEN <<"--image", Unwrap(os.url)>> ELSE <<>>)
    \o (IF IsSome(os.extract_sha256) THEN <<"--sha256", Unwrap(os.extract_sha256)>> ELSE <<>>)
    \o (IF IsSome(os.extract_size) THEN <<"--size", ToString(Unwrap(os.extract_size))>> ELSE <<>>)

\* App::start_writing without the look at the selections.
start_writing_unchecked(a) ==
    [a EXCEPT !.worker_args = Some(Exe \o <<"--options", OptionsBlob>>),
              !.current_view = "Authenticating"]

\* App::start_writing (main.rs 538-573)
start_writing(a) ==
    IF IsSome(a.selected_os) /\ IsSome(a.selected_drive)
    THEN [a EXCEPT !.worker_args =
                       Some(WorkerArgs(Unwrap(a.selected_os), Unwrap(a.selected_drive))),
                   !.current_view = "Authenticating"]
    ELSE a

\* App::abort_writing (main.rs 574-583)
abort_writing(a) ==
    [a EXCEPT !.abort_handle = FALSE, !.write_task = FALSE,
              !.current_view = "Finished", !.write_status = "Aborted",
              !.error_message = Some("Operation cancelled by user.")]

\* drivelist.rs 43-50: a drive of the listing, its name and its mountpoints.
Drive(name, mountpoints) == [name |-> name, mountpoints |-> mountpoints]
Sda == Drive("/dev/sda", <<>>)
Nvme == Drive("/dev/nvme0n1", <<"/boot/efi", "/">>)

\* Drive::is_system with no drive taken for a system drive.
is_system_never(d) == FALSE

\* Drive::is_system (drivelist.rs 52-57)
is_system(d) == \E i \in DOMAIN d.mountpoints : d.mountpoints[i] = "/"

\* get_drives (drivelist.rs 59-135): the listing, or an error. The drive of
\* the running system is in every listing.
DrivesOk(drives) == [ok |-> TRUE, drives |-> drives, msg |-> ""]
DrivesErr(m) == [ok |-> FALSE, drives |-> <<>>, msg |-> m]
Listings ==
    {DrivesErr("lsblk failed"), DrivesOk(<<Nvme>>), DrivesOk(<<Nvme, Sda>>),
     DrivesOk(<<Sda, Nvme>>)}

\* App::refresh_drives (main.rs 488-498), get_drives having returned r.
refresh_drives(a, r) ==
    IF r.ok
    THEN [a EXCEPT !.drive_list = SelectSeq(r.drives, LAMBDA d : ~is_system(d)),
                   !.drive_list_state = Some(0)]
    ELSE [a EXCEPT !.error_message = Some("Failed to list drives: " \o r.msg)]

\* App::select_drive (main.rs 500-508); the list's indices start at 0.
select_drive(a) ==
    IF IsSome(a.drive_list_state) /\ Unwrap(a.drive_list_state) < Len(a.drive_list)
    THEN [a EXCEPT !.selected_drive = Some(a.drive_list[Unwrap(a.drive_list_state) + 1]),
                   !.current_view = "Customization"]
    ELSE a

\* App::next_drive and App::previous_drive (main.rs 510-536)
next_drive(a) ==
    [a EXCEPT !.drive_list_state =
        IF IsSome(@)
        THEN Some(IF Unwrap(@) + 1 >= Len(a.drive_list) THEN 0 ELSE Unwrap(@) + 1)
        ELSE Some(0)]
previous_drive(a) ==
    [a EXCEPT !.drive_list_state =
        IF IsSome(@)
        THEN Some(IF Unwrap(@) = 0
                  THEN (IF Len(a.drive_list) = 0 THEN 0 ELSE Len(a.drive_list) - 1)
                  ELSE Unwrap(@) - 1)
        ELSE Some(0)]

\* The catalog entries and local images of the model.
CatalogImage ==
    [url |-> Some(UrlBase \o "/i.xz"), extract_sha256 |-> Some(HexEncode(Sha256Of(Image(MaxLen)))),
     extract_size |-> Some(MaxLen)]
LocalImage == [url |-> Some(LocalPath), extract_sha256 |-> None, extract_size |-> None]
OsItems == {CatalogImage, LocalImage}

\* main (main.rs 602-727): App::new, and for an image named on the command
\* line that image selected, the drives listed and the storage view shown.
SInit ==
    /\ \/ app = AppNew
       \/ \E r \in Listings :
            app = refresh_drives([AppNew EXCEPT !.selected_os = Some(LocalImage),
                                                !.current_view = "StorageSelection"], r)
    /\ lpc = "top" /\ rx = <<>>
    /\ child = "none" /\ child_status = None /\ helper = ""
    /\ pipe = <<>> /\ produced = <<>>
    /\ reader = "none" /\ relayed = <<>> /\ aborted = FALSE
    /\ attempts = 0 /\ prevs = <<>> /\ tried = <<>>
    \* the worker process is not modelled from inside in this specification
    /\ WIdle
    /\ CIdle
    /\ PIdle
    /\ NIdle

childVars == <<child, child_status, pipe, produced>>
sessionVars == <<attempts, prevs, tried>>

\* Command::spawn: the child, or the error of the operating system.
SpawnError(program) ==
    IF program = "sudo" THEN "No such file or directory" ELSE "Permission denied"
Spawned == [ok |-> TRUE, err |-> ""]
SpawnFailed(e) == [ok |-> FALSE, err |-> e]
SpawnResults(program) == {Spawned, SpawnFailed(SpawnError(program))}

\* The fallback reporting its own error when both helpers fail.
SpawnResultLast(first, second) == IF first.ok THEN first ELSE second

\* main.rs 754-765: the result of sudo, or of pkexec when sudo failed to
\* spawn, with the error of sudo when pkexec failed as well.
SpawnResult(first, second) ==
    IF first.ok THEN first
    ELSE IF second.ok THEN second ELSE SpawnFailed(first.err)

\* An earlier invocation whose process or reader task is still there.
Live(p) == p.child = "running" \/ p.reader \in {"reading", "waiting"}
Current == [child |-> child, child_status |-> child_status, pipe |-> pipe,
            reader |-> reader]

\* main.rs 737-838: the top of the loop; a pending invocation is taken and
\* spawned through sudo, then through pkexec when sudo cannot be spawned.
\* (child.stdout is piped, so the stdout.take() always gives it.) The task
\* handle of an earlier invocation is overwritten, which detaches the task.
LoopSpawn ==
    /\ lpc = "top"
    /\ IsSome(app.worker_args)
    /\ \E sudo \in SpawnResults("sudo"), pkexec \in SpawnResults("pkexec") :
         LET spawn_result == SpawnResult(sudo, pkexec)
         IN  /\ tried' = IF sudo.ok
                         THEN <<[helper |-> "sudo", result |-> sudo]>>
                         ELSE <<[helper |-> "sudo", result |-> sudo],
                                [helper |-> "pkexec", result |-> pkexec]>>
             /\ IF spawn_result.ok
                THEN /\ app' = [app EXCEPT !.worker_args = None,
                                           !.current_view = "Writing",
                                           !.write_status = "Starting worker...",
                                           !.abort_handle = TRUE,
                                           !.write_task = TRUE]
                     /\ helper' = IF sudo.ok THEN "sudo" ELSE "pkexec"
                     /\ prevs' = IF Live(Current) THEN Append(prevs, Current) ELSE prevs
                     /\ child' = "running" /\ child_status' = None
                     /\ pipe' = <<>> /\ produced' = <<>>
                     /\ reader' = "reading" /\ relayed' = <<>>
                     /\ aborted' = FALSE
                ELSE /\ app' = [app EXCEPT !.worker_args = None,
                                           !.error_message =
                                               Some("Failed to spawn privileged process: "
                                                    \o spawn_result.err),
                                           !.current_view = "StorageSelection"]
                     /\ UNCHANGED <<helper, prevs, childVars, reader, relayed, aborted>>
    /\ attempts' = attempts + 1
    /\ lpc' = "recv"
    /\ UNCHANGED <<rx, wvars, cvars, pvars, nvars>>

\* main.rs 737: no invocation is pending.
LoopNoSpawn ==
    /\ lpc = "top"
    /\ ~IsSome(app.worker_args)
    /\ lpc' = "recv"
    /\ UNCHANGED <<app, rx, childVars, helper, reader, relayed, aborted, sessionVars, wvars, cvars, pvars, nvars>>

\* main.rs 841-876: try_recv gives a message.
LoopRecv ==
    /\ lpc = "recv"
    /\ rx # <<>>
    /\ app' = OnMessage(app, Head(rx))
    /\ rx' = Tail(rx)
    /\ lpc' = "key"
    /\ UNCHANGED <<childVars, helper, reader, relayed, aborted, sessionVars, wvars, cvars, pvars, nvars>>

\* main.rs 877-879: the channel is empty.
LoopRecvEmpty ==
    /\ lpc = "recv"
    /\ rx = <<>>
    /\ lpc' = "key"
    /\ UNCHANGED <<app, rx, childVars, helper, reader, relayed, aborted, sessionVars, wvars, cvars, pvars, nvars>>

\* main.rs 893: no key within the poll's 100 ms.
NoKey ==
    /\ lpc = "key"
    /\ lpc' = "top"
    /\ UNCHANGED <<app, rx, childVars, helper, reader, relayed, aborted, sessionVars, wvars, cvars, pvars, nvars>>

\* main.rs 896-899: any key dismisses a shown error and does nothing else.
KeyDismissError ==
    /\ lpc = "key"
    /\ IsSome(app.error_message)
    /\ app' = [app EXCEPT !.error_message = None]
    /\ lpc' = "top"
    /\ UNCHANGED <<rx, childVars, helper, reader, relayed, aborted, sessionVars, wvars, cvars, pvars, nvars>>

KeyIn(view) == lpc = "key" /\ ~IsSome(app.error_message) /\ app.current_view = view

\* The session is followed as long as it can lead to an invocation the
\* model still has.
Navigating(view) == KeyIn(view) /\ attempts < MaxAttempts

AfterKey(a) == IF a.should_quit THEN "quit" ELSE "top"

\* main.rs 921-927; the catalog is loaded, so select_device finds a device.
KeyDeviceSelection ==
    /\ Navigating("DeviceSelection")
    /\ \E key \in {"q", "Enter"} :
         app' = CASE key = "q" -> [app EXCEPT !.should_quit = TRUE]
                  [] key = "Enter" -> [app EXCEPT !.current_view = "OsSelection"]
    /\ lpc' = AfterKey(app')
    /\ UNCHANGED <<rx, childVars, helper, reader, relayed, aborted, sessionVars, wvars, cvars, pvars, nvars>>

\* main.rs 928-945 with App::select (main.rs 470-486) and App::back (main.rs
\* 585-599), at the top of the catalog, on an entry that is an image.
KeyOsSelection ==
    /\ Navigating("OsSelection")
    /\ \E key \in {"q", "Esc", "Enter"} :
         CASE key = "q" -> app' = [app EXCEPT !.should_quit = TRUE]
           [] key = "Esc" ->
                app' = [app EXCEPT !.current_view = "DeviceSelection",
                                   !.selected_os = None]
           [] key = "Enter" ->
                \E r \in Listings :
                    app' = refresh_drives(
                               [app EXCEPT !.selected_os = Some(CatalogImage),
                                           !.current_view = "StorageSelection"], r)
    /\ lpc' = AfterKey(app')
    /\ UNCHANGED <<rx, childVars, helper, reader, relayed, aborted, sessionVars, wvars, cvars, pvars, nvars>>

\* main.rs 946-963
KeyStorageSelection ==
    /\ Navigating("StorageSelection")
    /\ \E key \in {"q", "Esc", "Down", "Up", "Enter", "r", "o"} :
         IF key = "r"
         THEN \E r \in Listings : app' = refresh_drives(app, r)
         ELSE app' = CASE key = "q" -> [app EXCEPT !.should_quit = TRUE]
                       [] key = "Esc" ->
                             [app EXCEPT !.current_view = "OsSelection",
                                         !.drive_list = <<>>,
                                         !.selected_os = None]
                       [] key = "Down" -> next_drive(app)
                       [] key = "Up" -> previous_drive(app)
                       [] key = "Enter" -> select_drive(app)
                       [] key = "o" -> [app EXCEPT !.current_view = "Customization"]
    /\ lpc' = AfterKey(app')
    /\ UNCHANGED <<rx, childVars, helper, reader, relayed, aborted, sessionVars, wvars, cvars, pvars, nvars>>

\* main.rs 964-1068, in the top menu of the customization view: 'q', Esc,
\* and Enter on NEXT. (Editing the settings changes nothing modelled here.)
KeyCustomization ==
    /\ Navigating("Customization")
    /\ \E key \in {"q", "Esc", "Enter"} :
         app' = CASE key = "q" -> [app EXCEPT !.should_quit = TRUE]
                  [] key = "Esc" -> [app EXCEPT !.current_view = "StorageSelection"]
                  [] key = "Enter" -> [app EXCEPT !.current_view = "WriteConfirmation"]
    /\ lpc' = AfterKey(app')
    /\ UNCHANGED <<rx, childVars, helper, reader, relayed, aborted, sessionVars, wvars, cvars, pvars, nvars>>

\* main.rs 1069-1081
KeyWriteConfirmation ==
    /\ Navigating("WriteConfirmation")
    /\ \E key \in {"q", "Esc", "n", "y", "Enter"} :
         /\ app' = CASE key = "q" -> [app EXCEPT !.should_quit = TRUE]
                  [] key \in {"Esc", "n"} ->
                        [app EXCEPT !.current_view = "StorageSelection",
                                    !.selected_drive = None]
                  [] key \in {"y", "Enter"} -> start_writing(app)
    /\ lpc' = AfterKey(app')
    /\ UNCHANGED <<rx, childVars, helper, reader, relayed, aborted, sessionVars, wvars, cvars, pvars, nvars>>

\* main.rs 1082-1086
KeyWriting ==
    /\ KeyIn("Writing")
    /\ app' = [app EXCEPT !.current_view = "AbortConfirmation"]
    /\ lpc' = "top"
    /\ UNCHANGED <<rx, childVars, helper, reader, relayed, aborted, sessionVars, wvars, cvars, pvars, nvars>>

\* The abort key, had abort_writing killed the spawned process as well.
KeyAbortKills ==
    /\ KeyIn("AbortConfirmation")
    /\ app' = abort_writing(app)
    /\ reader' = IF app.abort_handle /\ reader \in {"reading", "waiting"}
                 THEN "aborted" ELSE reader
    /\ aborted' = TRUE
    /\ child' = "exited"
    /\ child_status' = IF child = "running" THEN Some(1) ELSE child_status
    /\ lpc' = "top"
    /\ UNCHANGED <<rx, pipe, produced, helper, relayed, sessionVars, wvars, cvars, pvars, nvars>>

\* main.rs 1087-1093, 'y' or Enter: App::abort_writing; the handle aborts
\* the reader task, not the child.
KeyAbortYes ==
    /\ KeyIn("AbortConfirmation")
    /\ app' = abort_writing(app)
    /\ reader' = IF app.abort_handle /\ reader \in {"reading", "waiting"}
                 THEN "aborted" ELSE reader
    /\ aborted' = TRUE
    /\ lpc' = "top"
    /\ UNCHANGED <<rx, childVars, helper, relayed, sessionVars, wvars, cvars, pvars, nvars>>

\* main.rs 1089-1091, 'n' or Esc
KeyAbortNo ==
    /\ KeyIn("AbortConfirmation")
    /\ app' = [app EXCEPT !.current_view = "Writing"]
    /\ lpc' = "top"
    /\ UNCHANGED <<rx, childVars, helper, reader, relayed, aborted, sessionVars, wvars, cvars, pvars, nvars>>

\* main.rs 1094-1107
KeyFinished ==
    /\ KeyIn("Finished")
    /\ app' = [app EXCEPT !.current_view = "DeviceSelection",
                          !.selected_os = None, !.selected_drive = None]
    /\ lpc' = "top"
    /\ UNCHANGED <<rx, childVars, helper, reader, relayed, aborted, sessionVars, wvars, cvars, pvars, nvars>>

\* The exit status of a Rust process that panicked.
PanicStatus == 101

\* The spawned process writes a line to its standard output, whose other
\* end the reader task holds.
ChildWrites ==
    /\ child = "running"
    /\ reader # "aborted"
    /\ Len(produced) + attempts <= MaxLines
    /\ \E l \in Lines :
         /\ pipe' = Append(pipe, l)
         /\ produced' = Append(produced, l)
    /\ UNCHANGED <<app, lpc, rx, child, child_status, helper, reader, relayed,
                   aborted, sessionVars, wvars, cvars, pvars, nvars>>

\* The spawned process exits; its end of the pipe closes.
ChildExits ==
    /\ child = "running"
    /\ child' = "exited"
    /\ \E st \in {0, 1} : child_status' = Some(st)
    /\ UNCHANGED <<app, lpc, rx, helper, pipe, produced, reader, relayed,
                   aborted, sessionVars, wvars, cvars, pvars, nvars>>

\* worker.rs 139-141: the reader task was aborted and the pipe's other end
\* dropped with it; println! panics on the broken pipe.
ChildWriteFails ==
    /\ child = "running"
    /\ reader = "aborted"
    /\ child' = "exited"
    /\ child_status' = Some(PanicStatus)
    /\ UNCHANGED <<app, lpc, rx, helper, pipe, produced, reader, relayed,
                   aborted, sessionVars, wvars, cvars, pvars, nvars>>

\* The earlier invocations that are still there, p having changed to q.
Replaced(i, q) ==
    SelectSeq([prevs EXCEPT ![i] = q], Live)

\* The process of an earlier invocation exits.
PrevChildExits ==
    /\ \E i \in DOMAIN prevs :
         /\ prevs[i].child = "running"
         /\ \E st \in {0, 1} :
              prevs' = Replaced(i, [prevs[i] EXCEPT !.child = "exited",
                                                    !.child_status = Some(st)])
    /\ UNCHANGED <<app, lpc, rx, childVars, helper, reader, relayed, aborted,
                   attempts, tried, wvars, cvars, pvars, nvars>>

\* main.rs 784-824: a step of the detached reader task of an earlier
\* invocation: a line read, the end of its loop, or the exit status.
PrevReaderStep ==
    /\ \E i \in DOMAIN prevs :
         LET p == prevs[i]
         IN  \/ /\ p.reader = "reading" /\ p.pipe # <<>>
                /\ prevs' = Replaced(i, [p EXCEPT !.pipe = Tail(@),
                                 !.reader = IF IsUtf8(Head(p.pipe)) THEN @ ELSE "waiting"])
                /\ rx' = IF IsSome(ParseLine(Head(p.pipe)))
                         THEN Append(rx, ToAppMessage(Unwrap(ParseLine(Head(p.pipe)))))
                         ELSE rx
             \/ /\ p.reader = "reading" /\ p.pipe = <<>> /\ p.child = "exited"
                /\ prevs' = Replaced(i, [p EXCEPT !.reader = "waiting"])
                /\ rx' = rx
             \/ /\ p.reader = "waiting" /\ p.child = "exited"
                /\ prevs' = Replaced(i, [p EXCEPT !.reader = "done"])
                /\ rx' = IF Unwrap(p.child_status) # 0
                         THEN Append(rx, WriteError("Worker process exited with code"))
                         ELSE rx
    /\ UNCHANGED <<app, lpc, childVars, helper, reader, relayed, aborted,
                   attempts, tried, wvars, cvars, pvars, nvars>>

\* main.rs 784-813: one line read; a line that parses is sent on, any other
\* line is skipped.
ReaderLine ==
    /\ reader = "reading"
    /\ pipe # <<>>
    /\ IsUtf8(Head(pipe))
    /\ pipe' = Tail(pipe)
    /\ LET msg == ParseLine(Head(pipe))
       IN  IF IsSome(msg)
           THEN /\ rx' = Append(rx, ToAppMessage(Unwrap(msg)))
                /\ relayed' = Append(relayed, ToAppMessage(Unwrap(msg)))
           ELSE UNCHANGED <<rx, relayed>>
    /\ UNCHANGED <<app, lpc, child, child_status, helper, produced, reader,
                   aborted, sessionVars, wvars, cvars, pvars, nvars>>

\* main.rs 784: next_line gives Err (a line that is no UTF-8): the while
\* let loop ends.
ReaderLineError ==
    /\ reader = "reading"
    /\ pipe # <<>>
    /\ ~IsUtf8(Head(pipe))
    /\ pipe' = Tail(pipe)
    /\ reader' = "waiting"
    /\ UNCHANGED <<app, lpc, rx, child, child_status, helper, produced, relayed,
                   aborted, sessionVars, wvars, cvars, pvars, nvars>>

\* main.rs 784: next_line gives Ok(None), the end of the stream.
ReaderEof ==
    /\ reader = "reading"
    /\ pipe = <<>>
    /\ child = "exited"
    /\ reader' = "waiting"
    /\ UNCHANGED <<app, lpc, rx, childVars, helper, relayed, aborted, sessionVars, wvars, cvars, pvars, nvars>>

\* main.rs 815-824: the exit status, once the child has exited.
ReaderWait ==
    /\ reader = "waiting"
    /\ child = "exited"
    /\ rx' = IF Unwrap(child_status) # 0
             THEN Append(rx, WriteError("Worker process exited with code"))
             ELSE rx
    /\ reader' = "done"
    /\ UNCHANGED <<app, lpc, childVars, helper, relayed, aborted, sessionVars, wvars, cvars, pvars, nvars>>

SNext ==
    \/ LoopSpawn \/ LoopNoSpawn \/ LoopRecv \/ LoopRecvEmpty \/ NoKey
    \/ KeyDismissError \/ KeyDeviceSelection \/ KeyOsSelection
    \/ KeyStorageSelection \/ KeyCustomization \/ KeyWriteConfirmation
    \/ KeyWriting \/ KeyAbortYes \/ KeyAbortNo \/ KeyFinished
    \/ ChildWrites \/ ChildWriteFails \/ ChildExits
    \/ PrevChildExits \/ PrevReaderStep
    \/ ReaderLine \/ ReaderLineError \/ ReaderEof \/ ReaderWait

SupSpec == SInit /\ [][SNext]_vars

\* ------------------------------------------------------------------ calls of generate_firstrun_script (ScriptSpec)
\* The object without one of its keys.
Without(o, key) == [f \in DOMAIN o \ {key} |-> o[f]]

\* The fields serde fills in when the key is missing: the Option ones
\* (customization.rs 5-33).
OptionalFields == {"password"}

\* serde_json::from_reader for CustomizationOptions (customization.rs 120):
\* the content has to be JSON and to have every field that is no Option.
from_reader(content) ==
    IF content.syntax /\ (DOMAIN Default \ OptionalFields) \subseteq DOMAIN content.value
    THEN Some([f \in DOMAIN Default |->
                  IF f \in DOMAIN content.value THEN content.value[f] ELSE None])
    ELSE None

\* load that takes what keys the file has and the defaults for the others.
load_lenient(file) ==
    IF file.home /\ file.exists /\ file.readable /\ file.content.syntax
    THEN [f \in DOMAIN Default |->
             IF f \in DOMAIN file.content.value THEN file.content.value[f] ELSE Default[f]]
    ELSE Default

\* CustomizationOptions::load (customization.rs 116-127)
load(file) ==
    IF file.home /\ file.exists /\ file.readable /\ IsSome(from_reader(file.content))
    THEN Unwrap(from_reader(file.content))
    ELSE Default

\* The contents of a settings file: what save wrote for some settings, the
\* same with a key missing (a file of another version, or cut), and text
\* that is no JSON.
Contents ==
    {Content(TRUE, o) : o \in Customizations}
    \cup {Content(TRUE, Without([Default EXCEPT !.hostname = <<"pi-lab">>], key)) :
              key \in {"locale", "password", "telemetry"}}
    \cup {Content(FALSE, [Default EXCEPT !.hostname = <<"pi-lab">>]), Garbage}

ConfigFiles ==
    {NoConfig,
     ConfigFile(TRUE, FALSE, FALSE, Garbage),
     ConfigFile(TRUE, TRUE, FALSE, Content(TRUE, [Default EXCEPT !.hostname = <<"pi-lab">>]))}
    \cup {ConfigFile(TRUE, TRUE, TRUE, c) : c \in Contents}

CInit ==
    /\ SIdle
    /\ NIdle
    /\ WIdle
    /\ PIdle
    /\ config \in ConfigFiles
    /\ loaded = FALSE
    /\ custom = Default
    /\ script = None /\ again = None

\* App::new (main.rs 137): the settings are loaded.
CallLoad ==
    /\ ~loaded
    /\ custom' = load(config)
    /\ loaded' = TRUE
    /\ UNCHANGED <<script, again, config, wvars, svars, pvars, nvars>>

\* A call of generate_firstrun_script on the options (worker.rs, the
\* customization step); hash_password draws from the random source.
CallGenerate ==
    /\ loaded
    /\ script = None
    /\ \E rng \in Rng : script' = Some(generate_firstrun_script(custom, rng))
    /\ UNCHANGED <<custom, again, config, loaded, wvars, svars, pvars, nvars>>

\* A second call on the same options.
CallGenerateAgain ==
    /\ IsSome(script)
    /\ again = None
    /\ \E rng \in Rng : again' = Some(generate_firstrun_script(custom, rng))
    /\ UNCHANGED <<custom, script, config, loaded, wvars, svars, pvars, nvars>>

CNext == CallLoad \/ CallGenerate \/ CallGenerateAgain

ScriptSpec == CInit /\ [][CNext]_vars

\* ------------------------------------------------------------------ apply_customization on a volume (InstallSpec)
\* A device path is the sequence of its characters after the leading
\* "/dev/", which is one element.
PathChars == {"a", "p", "0", "1"}

RECURSIVE PathsUpTo(_)
PathsUpTo(n) ==
    IF n = 0 THEN {<<"/dev/">>}
    ELSE PathsUpTo(n - 1) \cup
         {p \o <<c>> : p \in {q \in PathsUpTo(n - 1) : Len(q) = n}, c \in PathChars}

DevicePaths == PathsUpTo(MaxPath)

\* char::is_numeric on the characters of a device path.
is_numeric(c) == c \in {"0", "1"}

\* get_boot_partition with the bare suffix for every path.
get_boot_partition_bare(path) == path \o <<"1">>

\* get_boot_partition (post_process.rs 94-101).
get_boot_partition(path) ==
    IF is_numeric(path[Len(path)])
    THEN path \o <<"p", "1">>
    ELSE path \o <<"1">>

\* The three one-shot boot arguments (post_process.rs 53-55, 61).
RunArg == "systemd.run=/boot/firstrun.sh"
RunSuccessArg == "systemd.run_success_action=reboot"
UnitArg == "systemd.unit=kernel-command-line.target"
OneShotArgs == <<RunArg, RunSuccessArg, UnitArg>>

\* The content of cmdline.txt is the sequence of its arguments and of the
\* white space between them.
WhiteSpace == {" ", "\n"}

\* str::replace(" " + arg, "") (post_process.rs 53-55).
RECURSIVE remove_arg(_, _)
remove_arg(line, arg) ==
    IF line = <<>> THEN <<>>
    ELSE IF Len(line) >= 2 /\ line[1] = " " /\ line[2] = arg
         THEN remove_arg(Tail(Tail(line)), arg)
         ELSE <<Head(line)>> \o remove_arg(Tail(line), arg)

\* str::trim (post_process.rs 59).
RECURSIVE trim_start(_)
trim_start(line) ==
    IF line # <<>> /\ Head(line) \in WhiteSpace THEN trim_start(Tail(line)) ELSE line

RECURSIVE trim_end(_)
trim_end(line) ==
    IF line # <<>> /\ line[Len(line)] \in WhiteSpace
    THEN trim_end(SubSeq(line, 1, Len(line) - 1))
    ELSE line

trim(line) == trim_end(trim_start(line))

\* The new line with the three arguments put in front of the old ones.
new_cmdline_front(old) ==
    <<UnitArg, " ", RunSuccessArg, " ", RunArg, " ">>
        \o trim(remove_arg(remove_arg(remove_arg(old, RunArg), RunSuccessArg), UnitArg))

\* The new line apply_customization writes (post_process.rs 50-63).
new_cmdline(old) ==
    trim(remove_arg(remove_arg(remove_arg(old, RunArg), RunSuccessArg), UnitArg))
        \o <<" ", RunArg, " ", RunSuccessArg, " ", UnitArg>>

\* The arguments the pattern ' systemd.run.*' of the script's cleanup command
\* starts a match at, when a space is in front of them (customization.rs 368).
MatchesRun(arg) == arg \in {RunArg, RunSuccessArg}

\* sed 's| systemd.run.*||g' on the content of cmdline.txt (customization.rs
\* 368): on every line, the text from the first match to the end of the line
\* is deleted.
RECURSIVE sed_cleanup(_, _)
sed_cleanup(line, deleting) ==
    IF line = <<>> THEN <<>>
    ELSE IF Head(line) = "\n" THEN <<"\n">> \o sed_cleanup(Tail(line), FALSE)
    ELSE IF deleting THEN sed_cleanup(Tail(line), TRUE)
    ELSE IF Head(line) = " " /\ Len(line) >= 2 /\ MatchesRun(line[2])
         THEN sed_cleanup(Tail(line), TRUE)
         ELSE <<Head(line)>> \o sed_cleanup(Tail(line), FALSE)

\* What cmdline.txt holds when the image ships it: nothing, a plain line with
\* or without the final newline, a line another imager gave the three
\* arguments, a line with a stale one in the middle, and a line with another
\* systemd argument and a leading space.
Originals ==
    { None,
      Some(<<"console=tty1", " ", "rootwait">>),
      Some(<<"console=tty1", " ", "rootwait", "\n">>),
      Some(<<"console=tty1", " ", "rootwait", " ", RunArg, " ", RunSuccessArg,
             " ", UnitArg, "\n">>),
      Some(<<"console=tty1", " ", RunArg, " ", "rootwait">>),
      Some(<<" ", "console=tty1", " ", "systemd.show_status=0">>) }

\* The exit statuses of a mount or umount that failed.
FailStatuses == {1, 32}

\* The {:?} of status.code() (post_process.rs 34).
DebugCode(st) == <<"Some(", ToString(st), ")">>

\* The options the worker hands over: the defaults or a host name.
Handed == {Default, [Default EXCEPT !.hostname = <<"pi-lab">>]}

PInit ==
    /\ SIdle
    /\ NIdle
    /\ WIdle
    /\ custom \in Handed /\ script = None /\ again = None
    /\ config = NoConfig /\ loaded = FALSE
    /\ apc = "call"
    /\ target \in DevicePaths
    /\ boot_partition = <<>>
    /\ mount_point = FALSE /\ boot_mounted = FALSE
    /\ mount_status = None /\ umount_status = None
    /\ closure = None /\ returned = None
    /\ original \in Originals
    /\ cmdline = original
    /\ firstrun = FALSE
    /\ runs = 0

\* A call of apply_customization: a worker process of its own, with a mount
\* point of its own (post_process.rs 13).
Entry ==
    /\ apc \in {"call", "done"}
    /\ runs < MaxRuns
    /\ runs' = runs + 1
    /\ mount_status' = None /\ umount_status' = None /\ closure' = None

\* post_process.rs 8-10
ApplyNotNeeded ==
    /\ Entry
    /\ ~needs_customization(custom)
    /\ returned' = Some(Ok)
    /\ apc' = "done"
    /\ mount_point' = FALSE /\ boot_mounted' = FALSE
    /\ UNCHANGED <<target, boot_partition, cmdline, original, firstrun,
                   wvars, svars, cvars, nvars>>

\* post_process.rs 12-16: create_dir_all succeeds
ApplyMkdir ==
    /\ Entry
    /\ needs_customization(custom)
    /\ boot_partition' = get_boot_partition(target)
    /\ mount_point' = TRUE /\ boot_mounted' = FALSE
    /\ returned' = None
    /\ apc' = "mount"
    /\ UNCHANGED <<target, cmdline, original, firstrun, wvars, svars, cvars, nvars>>

\* post_process.rs 16: create_dir_all fails
ApplyMkdirFails ==
    /\ Entry
    /\ needs_customization(custom)
    /\ boot_partition' = get_boot_partition(target)
    /\ mount_point' = FALSE /\ boot_mounted' = FALSE
    /\ returned' = Some(Err(<<"Failed to create temp mount point">>))
    /\ apc' = "done"
    /\ UNCHANGED <<target, cmdline, original, firstrun, wvars, svars, cvars, nvars>>

\* post_process.rs 27-35: mount exits with 0
MountSucceeds ==
    /\ apc = "mount"
    /\ mount_status' = Some(0)
    /\ boot_mounted' = TRUE
    /\ apc' = "script"
    /\ UNCHANGED <<target, boot_partition, mount_point, umount_status, closure,
                   returned, cmdline, original, firstrun, runs, wvars, svars, cvars, nvars>>

\* post_process.rs 33-35: mount exits with another status
MountExitsNonZero ==
    /\ apc = "mount"
    /\ \E st \in FailStatuses :
         /\ mount_status' = Some(st)
         /\ returned' = Some(Err(<<"Failed to mount boot partition. Exit code: ">>
                                     \o DebugCode(st)))
    /\ apc' = "done"
    /\ UNCHANGED <<target, boot_partition, mount_point, boot_mounted, umount_status,
                   closure, cmdline, original, firstrun, runs, wvars, svars, cvars, nvars>>

\* post_process.rs 27-31: mount cannot be run
MountCannotRun ==
    /\ apc = "mount"
    /\ returned' = Some(Err(<<"Failed to mount boot partition ">> \o boot_partition))
    /\ apc' = "done"
    /\ UNCHANGED <<target, boot_partition, mount_point, boot_mounted, mount_status,
                   umount_status, closure, cmdline, original, firstrun, runs,
                   wvars, svars, cvars, nvars>>

\* post_process.rs 39-44: firstrun.sh is written, or the write fails and the
\* closure returns
WriteScript ==
    /\ apc = "script"
    /\ \/ firstrun' = TRUE /\ apc' = "cmdline" /\ UNCHANGED closure
       \/ /\ closure' = Some(Err(<<"Failed to write firstrun.sh">>))
          /\ apc' = "umount"
          /\ UNCHANGED firstrun
    /\ UNCHANGED <<target, boot_partition, mount_point, boot_mounted, mount_status,
                   umount_status, returned, cmdline, original, runs,
                   wvars, svars, cvars, nvars>>

\* post_process.rs 47-65: cmdline.txt is there and is rewritten. A write that
\* fails is taken to leave the file as it was.
PatchCmdline ==
    /\ apc = "cmdline"
    /\ IsSome(cmdline)
    /\ \/ /\ cmdline' = Some(new_cmdline(Unwrap(cmdline)))
          /\ closure' = Some(Ok)
       \/ /\ closure' \in {Some(Err(<<"Failed to read cmdline.txt">>)),
                           Some(Err(<<"Failed to update cmdline.txt">>))}
          /\ UNCHANGED cmdline
    /\ apc' = "umount"
    /\ UNCHANGED <<target, boot_partition, mount_point, boot_mounted, mount_status,
                   umount_status, returned, original, firstrun, runs,
                   wvars, svars, cvars, nvars>>

\* post_process.rs 66-70: no cmdline.txt, a warning and nothing else
NoCmdline ==
    /\ apc = "cmdline"
    /\ cmdline = None
    /\ closure' = Some(Ok)
    /\ apc' = "umount"
    /\ UNCHANGED <<target, boot_partition, mount_point, boot_mounted, mount_status,
                   umount_status, returned, cmdline, original, firstrun, runs,
                   wvars, svars, cvars, nvars>>

\* post_process.rs 79-91: umount exits with 0, the directory is removed and
\* the closure's result returned
UmountSucceeds ==
    /\ apc = "umount"
    /\ umount_status' = Some(0)
    /\ boot_mounted' = FALSE
    /\ mount_point' = FALSE
    /\ returned' = closure
    /\ apc' = "done"
    /\ UNCHANGED <<target, boot_partition, mount_status, closure, cmdline, original,
                   firstrun, runs, wvars, svars, cvars, nvars>>

\* post_process.rs 85-89: umount exits with another status; remove_dir fails
\* on the mounted directory and its error is dropped
UmountExitsNonZero ==
    /\ apc = "umount"
    /\ \E st \in FailStatuses : umount_status' = Some(st)
    /\ returned' = Some(Err(<<"Failed to unmount. Check if busy.">>))
    /\ apc' = "done"
    /\ UNCHANGED <<target, boot_partition, mount_point, boot_mounted, mount_status,
                   closure, cmdline, original, firstrun, runs, wvars, svars, cvars, nvars>>

\* post_process.rs 79-82: umount cannot be run
UmountCannotRun ==
    /\ apc = "umount"
    /\ returned' = Some(Err(<<"Failed to unmount boot partition">>))
    /\ apc' = "done"
    /\ UNCHANGED <<target, boot_partition, mount_point, boot_mounted, mount_status,
                   umount_status, closure, cmdline, original, firstrun, runs,
                   wvars, svars, cvars, nvars>>

PNext ==
    \/ ApplyNotNeeded
    \/ ApplyMkdir
    \/ ApplyMkdirFails
    \/ MountSucceeds
    \/ MountExitsNonZero
    \/ MountCannotRun
    \/ WriteScript
    \/ PatchCmdline
    \/ NoCmdline
    \/ UmountSucceeds
    \/ UmountExitsNonZero
    \/ UmountCannotRun

InstallSpec == PInit /\ [][PNext]_vars

\* ------------------------------------------------------------------ properties of the worker (Spec)
Range(seq) == {seq[i] : i \in DOMAIN seq}
Terminals(seq) == {i \in DOMAIN seq : IsTerminal(seq[i])}
TerminalLines(seq) == {i \in DOMAIN seq : IsTerminalLine(seq[i])}
FinishedSent == WriteFinished \in Range(sent)

\* The facts of a run, read off the device and the source rather than off
\* the hashers: every source byte was delivered and counted, nothing is left
\* in the write buffer, stable storage holds what the device file holds, the
\* flush came before the sync, and the first total_written bytes of the
\* device are the source bytes.
FlushedAndSynced ==
    /\ bw = <<>>
    /\ disk = dev
    /\ \E i, j \in DOMAIN ops : i < j /\ ops[i] = "flush" /\ ops[j] = "sync"
DeviceHoldsSource ==
    /\ pos = Len(src)
    /\ total_written = Len(src)
    /\ Len(dev) >= total_written
    /\ Sha256Of(SubSeq(dev, 1, total_written)) = Sha256Of(src)
ExpectedIsSourceHash ==
    IsSome(sha256) => ToLowercase(Unwrap(sha256)) = HexEncode(Sha256Of(src))

\* C1: Finished is emitted only after the write buffer was flushed and the
\* device synced, the expected SHA-256 (when supplied) equalled the source
\* hash, and the hash of the bytes read back from the device equalled the
\* source hash.
C1_FinishedOnlyAfterVerified ==
    FinishedSent =>
        /\ FlushedAndSynced
        /\ ExpectedIsSourceHash
        /\ DeviceHoldsSource
        /\ HexEncode(verify_hasher) = source_hash_hex
        /\ source_hash_hex = HexEncode(Sha256Of(src))

\* A run that finished with an expected hash spelled in uppercase.
C1_Witness ==
    /\ FinishedSent
    /\ Len(src) >= 2
    /\ sha256 = Some(HexUpper(Sha256Of(src)))

\* C2: the events of a transfer run hold at most one terminal event and
\* nothing after it; once the task has ended they hold exactly one, Finished
\* for Ok and the Error of the returned error otherwise; and the output of a
\* worker that has exited after starting a transfer holds exactly one
\* terminal line, its last.
C2_OneTerminalEvent ==
    /\ Cardinality(Terminals(sent)) <= 1
    /\ \A i \in Terminals(sent) : i = Len(sent)
    /\ Cardinality(TerminalLines(out)) <= 1
    /\ \A i \in TerminalLines(out) : i = Len(out)
    /\ wpc = "end" =>
          /\ Cardinality(Terminals(sent)) = 1
          /\ sent[Len(sent)] = IF Unwrap(result).ok THEN WriteFinished
                               ELSE WriteError(Unwrap(result).msg)
    /\ (mpc = "exited" /\ wpc # "idle") => Cardinality(TerminalLines(out)) = 1

\* A worker that exited on the error of a run that had reached verification.
C2_Witness ==
    /\ mpc = "exited"
    /\ wpc = "end"
    /\ ~Unwrap(result).ok
    /\ out[Len(out)].type = "Error"
    /\ \E i \in DOMAIN out : out[i].type = "Phase" /\ out[i].str = "Verifying"

VerifyingAt == {i \in DOMAIN sent : sent[i] = WritingPhase("Verifying")}
WritePhaseAt ==
    {i \in DOMAIN sent : sent[i].type = "WriteProgress" \/ sent[i] = WritingPhase("Writing")}
VerifyingInOrder ==
    \A v \in VerifyingAt :
        /\ \A i \in WritePhaseAt : i < v
        /\ \A i \in Terminals(sent) : v < i

ExpectedMismatch ==
    IsSome(sha256) /\ ToLowercase(Unwrap(sha256)) # HexEncode(Sha256Of(src))

\* C4: with an expected SHA-256 that is not the hash of the decompressed
\* bytes, Finished is never emitted, the run never reaches the read-back, the
\* sync is the last operation on the device, and a run that got as far as
\* the sync returns the download verification error.
C4_ExpectedMismatchIsFatal ==
    ExpectedMismatch =>
        /\ ~FinishedSent
        /\ wpc \in {"start", "download", "decoder", "open", "write_loop", "flush",
                    "sync", "check", "returned", "end"}
        /\ \A i \in DOMAIN ops : ops[i] = "sync" => i = Len(ops)
        /\ (wpc \in {"returned", "end"} /\ "sync" \in Range(ops)) =>
               result = Some(Err("Download verification failed!"))

\* A whole image written and synced, then refused for its hash.
C4_Witness ==
    /\ ExpectedMismatch
    /\ wpc = "end"
    /\ result = Some(Err("Download verification failed!"))
    /\ Len(src) >= 2 /\ disk = src

\* What the supervisor shows after the lines of `lines`, each read, parsed
\* and handled in order (main.rs 784-811, 854-876).
RECURSIVE Shown(_, _)
Shown(a, lines) ==
    IF lines = <<>> THEN a
    ELSE LET m == ParseLine(Head(lines))
         IN  Shown(IF IsSome(m) THEN OnMessage(a, ToAppMessage(Unwrap(m))) ELSE a,
                   Tail(lines))

\* C5: every Progress event of the write phase carries at most 99, however
\* many bytes were written; the supervisor reading the worker's output shows
\* 100 only once it has read Finished, after the sync and the verification.
C5_ProgressBelow100 ==
    /\ \A i \in DOMAIN sent : sent[i].type = "WriteProgress" => sent[i].num <= 99
    /\ Shown(AppNew, out).write_progress >= 100 =>
          /\ out[Len(out)].type = "Finished"
          /\ FlushedAndSynced
          /\ DeviceHoldsSource

\* More bytes written than the expected size, reported as 99.
C5_Witness ==
    /\ extract_size > 0
    /\ total_written > extract_size
    /\ WriteProgress(99) \in Range(sent)
    /\ Percent(total_written, extract_size) > 100

ZipSource == mpc # "parse" /\ image_url \in Urls /\ EndsWith(UrlPath(image_url), ".zip")

\* C6: for a source whose path ends in .zip the device is never opened,
\* written or read; the run ends in an error, the unsupported-format error
\* as soon as the download has started.
C6_ZipRejectedBeforeOpen ==
    ZipSource =>
        /\ ops = <<>> /\ bw = <<>> /\ dev = <<>>
        /\ wpc \in {"start", "download", "decoder", "returned", "end"}
        /\ wpc \in {"returned", "end"} =>
               Unwrap(result) \in {Err("ZIP files are not supported yet"),
                                   Err("Failed to download"),
                                   Err("Download failed with status")}

C6_Witness ==
    /\ ZipSource
    /\ wpc = "end"
    /\ result = Some(Err("ZIP files are not supported yet"))
    /\ out # <<>>
    /\ out[Len(out)].type = "Error"

\* C8, as claimed: the worker exits with status zero when its run ends with
\* Finished and with a non-zero status when it ends with an Error event or
\* an argument error.
C8_ExitStatusTellsOutcome ==
    mpc = "exited" =>
        (Unwrap(exit_code) = 0 <=> (out # <<>> /\ out[Len(out)].type = "Finished"))

InstallerErrors ==
    {Err("Failed to create temp mount point"), Err("Failed to mount boot partition"),
     Err("Failed to write firstrun.sh"), Err("Failed to unmount. Check if busy.")}

RECURSIVE ValidEvents(_)
ValidEvents(lines) ==
    IF lines = <<>> THEN <<>>
    ELSE LET m == ParseLine(Head(lines))
         IN  (IF IsSome(m) THEN <<ToAppMessage(Unwrap(m))>> ELSE <<>>)
             \o ValidEvents(Tail(lines))

\* C7, as claimed: once the reader has finished with a worker's output, what
\* it relayed is exactly the valid events of the lines the worker wrote, in
\* order, whatever malformed lines lie between them.
C7_RelaysValidSubsequence ==
    reader = "done" => relayed = ValidEvents(produced)

\* C10, as claimed: once abort_writing has run, handling a message of the
\* channel changes nothing of the view, the status, the progress or the error
\* message.
C10_NoReactionAfterAbort ==
    [][(aborted /\ lpc = "recv" /\ rx # <<>> /\ rx' = Tail(rx)) =>
          /\ app'.current_view = app.current_view
          /\ app'.write_status = app.write_status
          /\ app'.write_progress = app.write_progress
          /\ app'.verify_progress = app.verify_progress
          /\ app'.error_message = app.error_message]_vars

\* The abort step: the key that confirms the abort is handled.
AbortStep ==
    /\ lpc = "key" /\ ~IsSome(app.error_message)
    /\ app.current_view = "AbortConfirmation"
    /\ app'.current_view = "Finished"

\* C11: the abort sends nothing to the worker: the step that aborts leaves
\* the spawned process, its exit status and what it has written as they
\* were, and so the processes of earlier invocations and the device.
C11_AbortLeavesWorker ==
    [][AbortStep =>
          /\ child' = child
          /\ child_status' = child_status
          /\ produced' = produced
          /\ pipe' = pipe
          /\ prevs' = prevs
          /\ wvars' = wvars]_vars

\* The write was aborted, the user is back at the first screen, and the
\* worker still runs.
C11_Witness ==
    /\ aborted
    /\ child = "running"
    /\ reader = "aborted"
    /\ app.current_view = "DeviceSelection"
    /\ app.write_status = "Aborted"

\* The worker processes running: that of the latest invocation and those of
\* earlier invocations.
RunningWorkers ==
    (IF child = "running" THEN 1 ELSE 0)
    + Len(SelectSeq(prevs, LAMBDA p : p.child = "running"))

\* C12, as claimed: whatever the user confirms, aborts, finishes and starts
\* again, at most one worker process runs at any time.
C12_OneWorkerAtATime ==
    RunningWorkers <= 1

\* The step of the loop that takes a pending invocation and launches it.
LaunchStep == lpc = "top" /\ IsSome(app.worker_args) /\ attempts' = attempts + 1

\* Both helpers were tried by the latest invocation and neither could be
\* spawned.
BothHelpersFailed ==
    /\ Len(tried) = 2
    /\ ~tried[1].result.ok
    /\ ~tried[2].result.ok

\* C13: an invocation is launched through sudo first, and through pkexec
\* only when sudo could not be spawned; when neither can be spawned the
\* failure is reported with the error of sudo, the Writing view is not
\* entered, no process and no reader task is created, and the view is
\* StorageSelection.
C13_SudoThenPkexec ==
    [][LaunchStep =>
          /\ tried'[1].helper = "sudo"
          /\ Len(tried') = (IF tried'[1].result.ok THEN 1 ELSE 2)
          /\ Len(tried') = 2 => tried'[2].helper = "pkexec"
          /\ tried'[1].result.ok => helper' = "sudo" /\ app'.current_view = "Writing"
          /\ BothHelpersFailed' =>
                /\ app'.error_message =
                       Some("Failed to spawn privileged process: " \o tried'[1].result.err)
                /\ app'.current_view = "StorageSelection"
                /\ app'.write_task = app.write_task
                /\ app'.abort_handle = app.abort_handle
                /\ UNCHANGED <<child, child_status, pipe, reader, prevs, rx>>]_vars

\* Neither sudo nor pkexec could be spawned in a session's first
\* invocation: the error of sudo is shown in StorageSelection and nothing
\* was started.
C13_Witness ==
    /\ BothHelpersFailed
    /\ tried[1].result.err # tried[2].result.err
    /\ attempts = 1
    /\ app.current_view = "StorageSelection"
    /\ app.error_message = Some("Failed to spawn privileged process: No such file or directory")
    /\ ~app.write_task
    /\ child # "running"

\* The worker of the latest invocation has had an Error event relayed.
ErrorRelayed == \E i \in DOMAIN relayed : relayed[i].type = "WriteError"

\* C14, as claimed: when the reader task has the worker's exit status, it
\* sends the abnormal-exit error exactly when the status is not zero and no
\* Error event of the worker was relayed; a worker that reported its error
\* has that one error shown.
C14_AbnormalExitOnlyWithoutError ==
    [][(reader = "waiting" /\ reader' = "done") =>
          ((rx' # rx) <=> (Unwrap(child_status) # 0 /\ ~ErrorRelayed))]_vars

\* A drive that holds the running system: / is among its mountpoints.
MountsRoot(d) == "/" \in Range(d.mountpoints)

\* C15: the drive list never holds a drive one of whose mountpoints is /,
\* so the drive that select_drive takes from it is no system drive.
C15_NoSystemDriveListed ==
    /\ \A i \in DOMAIN app.drive_list : ~MountsRoot(app.drive_list[i])
    /\ IsSome(app.selected_drive) => ~MountsRoot(Unwrap(app.selected_drive))

\* A drive was selected from a list that refresh_drives filled from a
\* listing with the system drive in it (every listing has it).
C15_Witness ==
    /\ \A r \in Listings : r.ok => \E i \in DOMAIN r.drives : MountsRoot(r.drives[i])
    /\ app.drive_list = <<Sda>>
    /\ app.selected_drive = Some(Sda)
    /\ app.current_view = "Customization"

\* ------------------------------------------------------------------ properties of the first-run script (ScriptSpec)
\* C16, as claimed: two calls of generate_firstrun_script on the same
\* options give the same text, with a password set as without.
C16_SameScriptTwice ==
    (IsSome(script) /\ IsSome(again)) =>
        ScriptText(Unwrap(script)) = ScriptText(Unwrap(again))

\* The text sub occurs in the text seq.
Occurs(sub, seq) ==
    \E i \in 1..(Len(seq) - Len(sub) + 1) : SubSeq(seq, i, i + Len(sub) - 1) = sub

\* The scripts made so far.
Scripts == {Unwrap(s) : s \in {t \in {script, again} : IsSome(t)}}

\* The values put into a script for a field.
Inserted(pieces, field) == {i \in DOMAIN pieces : pieces[i].field = field}

\* A crypt-format hash of the sha512 scheme.
IsCryptHash(h) == Len(h) = 6 /\ SubSeq(h, 1, 3) = <<"$", "6", "$">> /\ h[5] = "$"

\* C17: with a password that is not empty, the password's text occurs
\* nowhere in the script, in the userconf branch as in the chpasswd branch;
\* what is embedded for it is the escaped crypt-format hash (or nothing, when
\* hashing failed).
C17_OnlyTheHashEmbedded ==
    \A pieces \in Scripts :
        (IsSome(custom.password) /\ Unwrap(custom.password) # <<>>) =>
            /\ ~Occurs(Unwrap(custom.password), ScriptText(pieces))
            /\ \A i \in Inserted(pieces, "pwd_hash") :
                  \/ pieces[i].val = <<>>
                  \/ \E h \in {replace(pieces[i].val, "\\", <<>>)} :
                        IsCryptHash(h) /\ pieces[i].val = shell_escape(h)

\* A script for the user pi with a password with a dollar sign in it: the
\* hash is in both branches.
C17_Witness ==
    /\ IsSome(script)
    /\ custom.user_name = <<"pi">>
    /\ custom.password = Some(<<"pa", "$", "w0rd">>)
    /\ \E i, j \in Inserted(Unwrap(script), "pwd_hash") :
          /\ Unwrap(script)[i].ctx = "word"
          /\ Unwrap(script)[j].ctx = "dq"
          /\ Unwrap(script)[i].val # <<>>
          /\ Unwrap(script)[j].val = Unwrap(script)[i].val

\* What a POSIX shell makes of the text of one word (XCU 2.2, Quoting),
\* read from the state q: "word" outside quotes, "sq" inside single quotes,
\* "dq" inside double quotes. The result is the word's value and whether
\* the text ends outside quotes; a parameter expansion gives the value of
\* the parameter, which is not the text.
Expansion(name) == "<value of " \o name \o ">"
IsName(t) == t \notin {"\"", "$", "'", "\\", "."}
RECURSIVE ShellWord(_, _, _)
ShellWord(toks, q, acc) ==
    IF toks = <<>> THEN [ok |-> q = "word", val |-> acc]
    ELSE LET t == Head(toks)
             rest == Tail(toks)
         IN  CASE q = "sq" ->
                    IF t = "'" THEN ShellWord(rest, "word", acc)
                    ELSE ShellWord(rest, "sq", Append(acc, t))
               [] q = "word" /\ t = "'" -> ShellWord(rest, "sq", acc)
               [] q = "word" /\ t = "\"" -> ShellWord(rest, "dq", acc)
               [] q = "dq" /\ t = "\"" -> ShellWord(rest, "word", acc)
               [] q # "sq" /\ t = "\\" ->
                    IF rest = <<>> THEN [ok |-> FALSE, val |-> acc]
                    ELSE IF q = "word" \/ Head(rest) \in {"\"", "$", "\\"}
                    THEN ShellWord(Tail(rest), q, Append(acc, Head(rest)))
                    ELSE ShellWord(rest, q, Append(acc, t))
               [] q # "sq" /\ t = "$" ->
                    IF rest # <<>> /\ IsName(Head(rest))
                    THEN ShellWord(Tail(rest), q, Append(acc, Expansion(Head(rest))))
                    ELSE ShellWord(rest, q, Append(acc, t))
               [] OTHER -> ShellWord(rest, q, Append(acc, t))

\* The places of a script where shell_escape's output for a field is put:
\* the field's values in unquoted words.
EscapedPlaces(pieces, field) ==
    {i \in Inserted(pieces, field) : pieces[i].ctx = "word"}

\* C18, as claimed: for the hostname and the user name, made of ordinary
\* characters, double quotes, dollar signs and single quotes, the shell's
\* reading of the escaped field at its place in the script is the original
\* string.
C18_EscapedFieldParsesBack ==
    \A pieces \in Scripts : \A field \in {"hostname", "user_name"} :
        \A i \in EscapedPlaces(pieces, field) :
            ShellWord(pieces[i].val, "word", <<>>) = [ok |-> TRUE, val |-> custom[field]]

\* The fields of the options whose values are put into the script.
ValueFields ==
    {"hostname", "user_name", "ssh_public_keys", "wifi_ssid", "wifi_password",
     "wifi_country", "timezone", "keyboard_layout", "locale"}

\* The piece is a value that went through shell_escape: a field's value, as
\* it is or escaped for a regular expression first, or the password's hash.
PassedThroughEscape(piece) ==
    IF piece.field = "pwd_hash"
    THEN piece.val = shell_escape(replace(piece.val, "\\", <<>>))
    ELSE piece.val \in {shell_escape(custom[piece.field]),
                        shell_escape(regex_escape(custom[piece.field]))}

\* C19, as claimed: every value of the options that is put into text the
\* shell interprets, that is anywhere but inside a heredoc with a quoted
\* delimiter, went through shell_escape.
C19_InterpretedValuesEscaped ==
    \A pieces \in Scripts : \A i \in DOMAIN pieces :
        (pieces[i].field \in ValueFields \cup {"pwd_hash"} /\ pieces[i].ctx # "heredoc")
            => PassedThroughEscape(pieces[i])

\* The sections of the code that the script has text of.
Blocks(pieces) == {pieces[i].block : i \in DOMAIN pieces}

\* C20, as claimed: for the defaults with the hostname pi-lab, the script
\* has the text that sets the hostname, and no text of the SSH section, of
\* the Wi-Fi section or of the user-account section.
C20_HostnameOnly ==
    \A pieces \in Scripts :
        custom = [Default EXCEPT !.hostname = <<"pi-lab">>] =>
            /\ "hostname" \in Blocks(pieces)
            /\ \E i \in Inserted(pieces, "hostname") : pieces[i].val = <<"pi-lab">>
            /\ Blocks(pieces) \cap {"ssh", "wifi", "user"} = {}

\* The text of pieces[i] is text: a piece of the code's own text.
IsText(pieces, i, text) ==
    i \in DOMAIN pieces /\ pieces[i].ctx = "text" /\ pieces[i].val = <<text>>

\* C21: with SSH enabled, a key text that is not empty and password
\* authentication off, the script writes the key text to authorized_keys
\* through a heredoc and, after it, appends PasswordAuthentication no to the
\* configuration of the SSH daemon.
C21_KeysAndNoPasswordAuth ==
    \A pieces \in Scripts :
        (custom.ssh_enabled /\ custom.ssh_public_keys # <<>> /\ ~custom.ssh_password_auth) =>
            \E i \in DOMAIN pieces :
                /\ IsText(pieces, i, "   cat > \"$FIRSTUSERHOME/.ssh/authorized_keys\" <<'EOF'\n")
                /\ pieces[i + 1] = Ins("ssh", "heredoc", "ssh_public_keys",
                                       custom.ssh_public_keys)
                /\ IsText(pieces, i + 2, "\nEOF\n")
                /\ \E j \in DOMAIN pieces :
                      /\ j > i + 2
                      /\ IsText(pieces, j,
                                "   echo 'PasswordAuthentication no' >>/etc/ssh/sshd_config\n")

\* The script for SSH with the key ssh-ed25519 AAAA a@b and password
\* authentication off.
C21_Witness ==
    /\ IsSome(script)
    /\ custom.ssh_enabled /\ ~custom.ssh_password_auth
    /\ custom.ssh_public_keys = <<"ssh-ed25519 AAAA a@b">>
    /\ "ssh" \in Blocks(Unwrap(script))

\* The options with the two flags of the Options tab set to t and e.
WithFlags(o, t, e) == [o EXCEPT !.telemetry = t, !.eject_finished = e]

\* C22: telemetry and eject_finished do not reach the script or
\* needs_customization: whatever the two flags are set to, the options give
\* the script they gave (the random source drawing the same) and the same
\* answer of needs_customization.
C22_FlagsPassThrough ==
    \A t \in BOOLEAN, e \in BOOLEAN :
        /\ needs_customization(WithFlags(custom, t, e)) = needs_customization(custom)
        /\ \A rng \in Rng :
              generate_firstrun_script(WithFlags(custom, t, e), rng)
                  = generate_firstrun_script(custom, rng)
        /\ \A pieces \in Scripts :
              \E rng \in Rng : pieces = generate_firstrun_script(WithFlags(custom, t, e), rng)

\* A script was made for options with both flags off and nothing else
\* changed from the defaults.
C22_Witness ==
    /\ IsSome(script)
    /\ custom = WithFlags(Default, FALSE, FALSE)
    /\ ~needs_customization(custom)


\* ------------------------------------------------------------------ properties of apply_customization (InstallSpec)

\* apply_customization has returned from a call that created its mount point
\* directory.
ReturnedAfterMkdir ==
    /\ apc = "done"
    /\ needs_customization(custom)
    /\ returned # Some(Err(<<"Failed to create temp mount point">>))

\* C23, as claimed: on every return of apply_customization after the mount
\* point directory was created, the boot partition is not mounted and the
\* directory is gone.
C23_CleanupOnEveryExit == ReturnedAfterMkdir => ~boot_mounted /\ ~mount_point

\* The message names the status.
Reports(res, st) == \E i \in DOMAIN res.msg : res.msg[i] = ToString(st)

\* C24, as claimed: a mount or an umount that exits with a status other than
\* 0 makes apply_customization return an error, and the error reports that
\* status.
C24_FailuresReportStatus ==
    apc = "done" =>
        \A st \in {mount_status, umount_status} :
            IsSome(st) /\ Unwrap(st) # 0 =>
                /\ IsSome(returned) /\ ~Unwrap(returned).ok
                /\ Reports(Unwrap(returned), Unwrap(st))


\* How often the argument a is on the line.
Count(line, a) == Cardinality({i \in DOMAIN line : line[i] = a})

\* The arguments of a line that are not one-shot arguments, in order.
RECURSIVE OriginalArgs(_)
OriginalArgs(line) ==
    IF line = <<>> THEN <<>>
    ELSE IF Head(line) \in WhiteSpace \cup Range(OneShotArgs)
         THEN OriginalArgs(Tail(line))
         ELSE <<Head(line)>> \o OriginalArgs(Tail(line))

\* The line without its last six elements.
BeforeOneShot(line) == SubSeq(line, 1, Len(line) - 6)

\* The line has no white space at either end.
Trimmed(line) ==
    line = <<>> \/ (Head(line) \notin WhiteSpace /\ line[Len(line)] \notin WhiteSpace)

\* apply_customization has returned Ok from a call that rewrote cmdline.txt.
Patched ==
    /\ apc = "done" /\ returned = Some(Ok)
    /\ needs_customization(custom) /\ IsSome(cmdline)

\* C25: after any number of runs of apply_customization the last of which
\* returned Ok, the line of cmdline.txt has each of the three one-shot
\* arguments exactly once, as its end, after the original arguments; and the
\* script's cleanup command on that line leaves the original arguments,
\* trimmed.
C25_OneShotArgsOnceAndCleanable ==
    Patched =>
        LET line == Unwrap(cmdline) IN
        /\ \A i \in DOMAIN OneShotArgs : Count(line, OneShotArgs[i]) = 1
        /\ Len(line) >= 6
        /\ SubSeq(line, Len(line) - 5, Len(line))
             = <<" ", RunArg, " ", RunSuccessArg, " ", UnitArg>>
        /\ OriginalArgs(BeforeOneShot(line)) = OriginalArgs(Unwrap(original))
        /\ Trimmed(BeforeOneShot(line))
        /\ sed_cleanup(line, FALSE) = BeforeOneShot(line)
        /\ \A i \in DOMAIN OneShotArgs :
               Count(sed_cleanup(line, FALSE), OneShotArgs[i]) = 0

\* C25, witness: the second run on a volume whose cmdline.txt came with the
\* three arguments and a final newline has returned Ok.
C25_Witness ==
    /\ Patched
    /\ runs = MaxRuns
    /\ Count(Unwrap(original), RunArg) = 1
    /\ Unwrap(original)[Len(Unwrap(original))] = "\n"
    /\ Unwrap(cmdline) # Unwrap(original)


\* The decimal digits.
DecimalDigits == {"0", "1", "2", "3", "4", "5", "6", "7", "8", "9"}

\* C26: the boot partition of a device path that ends in a digit is the path
\* with p1 after it, that of any other path is the path with 1 after it, and
\* the two names of one path differ.
C26_BootPartitionNaming ==
    boot_partition # <<>> =>
        /\ target # <<>>
        /\ target[Len(target)] \in DecimalDigits
              => boot_partition = target \o <<"p", "1">>
        /\ target[Len(target)] \notin DecimalDigits
              => boot_partition = target \o <<"1">>
        /\ target \o <<"p", "1">> # target \o <<"1">>

\* C26, witness: the boot partition of /dev/a0 is /dev/a0p1.
C26_Witness ==
    /\ target = <<"/dev/", "a", "0">>
    /\ boot_partition = <<"/dev/", "a", "0", "p", "1">>


\* ------------------------------------------------------------------ more properties of the worker (Spec)

\* C29, as claimed: with no expected size, a reporting tick of the write loop
\* and a reporting tick of the read-back loop each emit an event, whatever
\* the count of bytes the tick comes at.
C29_TicksReportWithoutSize ==
    size = None =>
        /\ Running("write_loop") =>
              \A n \in 1..(Len(src) - pos) : WriteTick(total_written + n) # <<>>
        /\ Running("verify_loop") =>
              \A n \in 1..(total_written - total_read) : VerifyTick(total_read + n) # <<>>


\* The flag has a value in the arguments.
Given(a, flag) == \E i \in 1..(Len(a) - 1) : a[i] = flag /\ a[i + 1] \notin WorkerFlags

\* The arguments are malformed: the device or the image is missing, a flag
\* is the last argument, the size is no decimal number, or the settings
\* blob does not decode.
Malformed(a) ==
    \/ ~Given(a, "--device")
    \/ ~Given(a, "--image")
    \/ a[Len(a)] \in WorkerFlags
    \/ \E i \in 1..(Len(a) - 1) :
          \/ a[i] = "--size" /\ ParseU64(a[i + 1]) = None
          \/ a[i] = "--options" /\ a[i + 1] = GarbageBlob

\* C27, as claimed: on malformed arguments the worker does nothing but exit
\* with a status other than 0: it never starts the transfer task and never
\* touches the device.
C27_MalformedArgsExit ==
    Malformed(args) =>
        /\ mpc \in {"parse", "exited"}
        /\ mpc = "exited" => exit_code \notin {None, Some(0)}
        /\ ops = <<>>
        /\ sent = <<>>


\* ------------------------------------------------------------------ more properties of the supervisor (SupSpec)

\* C28: an invocation is built only by the key step of the WriteConfirmation
\* view, with an image and a drive selected, and while none is pending; a
\* spawn is attempted only on a pending invocation, through at most the two
\* helpers, and takes the invocation away; a pending invocation is never
\* changed.
C28_InvocationBuiltOnceAndConsumed ==
    [][/\ (~IsSome(app.worker_args) /\ IsSome(app'.worker_args)) =>
              /\ lpc = "key"
              /\ app.current_view = "WriteConfirmation"
              /\ IsSome(app.selected_os) /\ IsSome(app.selected_drive)
              /\ attempts' = attempts
       /\ attempts' # attempts =>
              /\ IsSome(app.worker_args)
              /\ attempts' = attempts + 1
              /\ ~IsSome(app'.worker_args)
              /\ Len(tried') \in 1..2
       /\ (IsSome(app.worker_args) /\ IsSome(app'.worker_args)) =>
              /\ app'.worker_args = app.worker_args
              /\ attempts' = attempts
      ]_vars

\* C28, witness: the second confirmed write has been launched and its
\* invocation is gone.
C28_Witness ==
    /\ attempts = MaxAttempts
    /\ app.current_view = "Writing"
    /\ ~IsSome(app.worker_args)


\* ------------------------------------------------------------------ properties of the settings (ScriptSpec)

\* The settings file is there, can be read, and is the JSON of an object
\* with all the settings that are no Option.
ValidFile(file) ==
    /\ file.home /\ file.exists /\ file.readable
    /\ file.content.syntax
    /\ \A f \in DOMAIN Default : f \in DOMAIN file.content.value \/ f = "password"

\* C30: load always returns, and for a settings file that is absent,
\* unreadable or invalid it returns exactly the built-in defaults.
C30_LoadFallsBackToDefaults ==
    /\ ~loaded => ENABLED CallLoad
    /\ (loaded /\ ~ValidFile(config)) => custom = Default

\* C30, witness: load has returned the defaults for a readable file that is
\* the JSON of the settings with the hostname pi-lab and without the locale.
C30_Witness ==
    /\ loaded
    /\ config.readable /\ config.content.syntax
    /\ "locale" \notin DOMAIN config.content.value
    /\ config.content.value.hostname = <<"pi-lab">>
    /\ custom = Default


\* The messages of the I/O failures write_image can have once the device is
\* open (writer.rs 99-228).
IoFailures ==
    {"Failed to read/decompress image stream", "Failed to write to storage device",
     "Failed to flush write buffer", "Failed to sync data to device",
     "Failed to seek to start of device for verification",
     "Failed to read from device for verification",
     "Unexpected EOF during verification"}

\* write_image has had an I/O failure after it opened the device.
IoFailed ==
    /\ IsSome(result)
    /\ ~Unwrap(result).ok
    /\ Unwrap(result).msg \in IoFailures

\* The error events among the events sent.
ErrorsSent == {i \in DOMAIN sent : sent[i].type = "WriteError"}

\* C31: after an I/O failure of write_image with the device open, no step
\* does anything to the device, the failure stays the result, no Finished
\* is sent, and when the task has ended exactly one error has been sent,
\* with the failure's message.
C31_NoRetryAfterIoFailure ==
    [][IoFailed =>
          /\ ops' = ops /\ dev' = dev /\ disk' = disk /\ bw' = bw
          /\ total_written' = total_written /\ total_read' = total_read
          /\ result' = result
          /\ \A i \in DOMAIN sent' : sent'[i].type # "WriteFinished"
          /\ Cardinality(ErrorsSent') <= 1
          /\ wpc' = "end" =>
                /\ ErrorsSent' = {Len(sent')}
                /\ sent'[Len(sent')] = WriteError(Unwrap(result).msg)
      ]_vars

\* C31, witness: the read-back failed after two reads of the device, and the
\* task has ended.
C31_Witness ==
    /\ IoFailed
    /\ Unwrap(result).msg = "Failed to read from device for verification"
    /\ Len(SelectSeq(ops, LAMBDA o : o = "read")) >= 2
    /\ wpc = "end"


\* The read-back loop was left by its break (writer.rs 213-215).
ReadBackDone ==
    \/ wpc = "compare"
    \/ result = Some(Ok)
    \/ \E i \in DOMAIN sent : sent[i].type = "WriteFinished"

\* C32: the read-back never reads more bytes than were written; when its
\* loop has ended normally it has read as many, and the second hash is the
\* hash of the first total_written bytes of the device; and after an early
\* end of the device the run has failed with fewer bytes read and no
\* Finished.
C32_ReadBackCoversWhatWasWritten ==
    /\ total_read <= total_written
    /\ ReadBackDone =>
          /\ total_read = total_written
          /\ total_written <= Len(dev)
          /\ verify_hasher = Sha256Of(SubSeq(dev, 1, total_written))
    /\ (IsSome(result) /\ Unwrap(result).msg = "Unexpected EOF during verification") =>
          /\ total_read < total_written
          /\ ~ReadBackDone

\* C32, witness: the read-back of an image of MaxLen bytes took more than
\* one read and has ended normally.
C32_Witness ==
    /\ wpc = "compare"
    /\ total_written = MaxLen
    /\ total_read = MaxLen
    /\ Len(SelectSeq(ops, LAMBDA o : o = "read")) >= 2


\* ------------------------------------------------------------------ more properties of the first-run script (ScriptSpec)

\* The script has a command that enables the SSH service: the helper's
\* enable_ssh or systemctl enable ssh.
EnablesSsh(pieces) ==
    \E i \in DOMAIN pieces :
        \/ IsText(pieces, i, "   systemctl enable ssh\n")
        \/ IsText(pieces, i, "   /usr/lib/raspberrypi-sys-mods/imager_custom enable_ssh\n")
        \/ IsText(pieces, i, "   /usr/lib/raspberrypi-sys-mods/imager_custom enable_ssh -k '")

\* C33, as claimed: with SSH enabled in the settings the script enables the
\* SSH service, whatever the key text and the password-authentication flag.
C33_SshEnabledEnablesService ==
    \A pieces \in Scripts : custom.ssh_enabled => EnablesSsh(pieces)


\* ------------------------------------------------------------------ properties of the supervisor's screens (SupSpec)

\* The screen drawn is the success screen: the view is Finished and no error
\* is drawn in its place (main.rs 1251-1257, 1832-1850).
ShowsSuccess == app.current_view = "Finished" /\ ~IsSome(app.error_message)

\* The reader of the current attempt has relayed a Finished event.
FinishedRelayed == \E i \in DOMAIN relayed : relayed[i].type = "WriteFinished"

\* C34, as claimed: the success screen is shown only when the Finished event
\* of the current write attempt has come from its worker.
C34_SuccessOnlyAfterFinished == ShowsSuccess => FinishedRelayed


\* Nothing is left that could reach the supervisor without a key: the reader
\* of the attempt has ended, no earlier reader is left, and the channel is
\* empty.
NothingToCome == reader = "done" /\ prevs = <<>> /\ rx = <<>>

\* C35, as claimed: once the reader has seen the end of the worker's output
\* and the child's exit, and the supervisor has taken everything the reader
\* sent, the supervisor is not in the Writing view any more.
C35_ResolvedAfterEndOfOutput == NothingToCome => app.current_view # "Writing"


\* C36, as claimed: while an attempt is in the Writing view, that is before
\* its Finished event is received, the write gauge and the verify gauge are
\* below 100.
C36_GaugesBelow100UntilFinished ==
    app.current_view = "Writing" =>
        app.write_progress < 100 /\ app.verify_progress < 100


\* C37, as claimed: in the step that builds a worker invocation, the selected
\* drive is one of the drives of the list as it is then: the latest listing
\* without the system drives.
C37_WrittenDriveIsListed ==
    [][(~IsSome(app.worker_args) /\ IsSome(app'.worker_args)) =>
          /\ IsSome(app.selected_drive)
          /\ Unwrap(app.selected_drive) \in Range(app.drive_list)
      ]_vars

\* ------------------------------------------------------------ the views
\* OsListItem (os_list.rs): an image, or a category with its subitems.
OsImage(name) == [name |-> name, subitems |-> <<>>] @@ CatalogImage
Category(name, subitems) ==
    [name |-> name, subitems |-> subitems, url |-> None, extract_sha256 |-> None,
     extract_size |-> None]

\* OsList (os_list.rs): the devices and the entries of a loaded catalog. A
\* catalog can have a category inside a category, and can be empty.
Catalog ==
    [devices |-> <<"Raspberry Pi 5", "Raspberry Pi 4">>,
     os_list |-> <<OsImage("Ubuntu"),
                   Category("Raspberry Pi OS (other)",
                            <<OsImage("Raspberry Pi OS Lite"),
                              Category("Legacy", <<OsImage("Raspberry Pi OS Legacy")>>)>>)>>]
EmptyCatalog == [devices |-> <<>>, os_list |-> <<>>]
Catalogs == {Catalog, EmptyCatalog}

\* usize::saturating_sub
saturating_sub(n, k) == IF n > k THEN n - k ELSE 0

\* Vec::pop on the vector itself
Popped(v) == IF v = <<>> THEN v ELSE SubSeq(v, 1, Len(v) - 1)

\* The cursor arithmetic of next_device, next, popup_next and of the Down key
\* of the customization sub-menu (main.rs 390-401, 441-452, 282-296, 989-1003),
\* and of their counterparts for Up: selected is the cursor, len the length
\* of the list.
next_index(selected, len) ==
    IF IsSome(selected)
    THEN Some(IF Unwrap(selected) >= saturating_sub(len, 1) THEN 0 ELSE Unwrap(selected) + 1)
    ELSE Some(0)
previous_index(selected, len) ==
    IF IsSome(selected)
    THEN Some(IF Unwrap(selected) = 0 THEN saturating_sub(len, 1) ELSE Unwrap(selected) - 1)
    ELSE Some(0)

\* slice::get(i) finds an element
Gets(list, selected) == IsSome(selected) /\ Unwrap(selected) < Len(list)
Got(list, selected) == list[Unwrap(selected) + 1]

\* App::get_devices (main.rs 382-388)
get_devices(a) == IF IsSome(a.os_list) THEN Unwrap(a.os_list).devices ELSE <<>>

\* App::next_device and App::previous_device (main.rs 390-416)
next_device(a) ==
    [a EXCEPT !.device_list_state = next_index(@, Len(get_devices(a)))]
previous_device(a) ==
    [a EXCEPT !.device_list_state = previous_index(@, Len(get_devices(a)))]

\* App::select_device (main.rs 418-430)
select_device(a) ==
    IF Gets(get_devices(a), a.device_list_state)
    THEN [a EXCEPT !.selected_device = Some(Got(get_devices(a), a.device_list_state)),
                   !.current_view = "OsSelection",
                   !.list_state = Some(0),
                   !.navigation_stack = <<>>,
                   !.breadcrumbs = <<>>,
                   !.selection_stack = <<>>]
    ELSE a

\* App::current_items (main.rs 432-440)
current_items(a) ==
    IF a.navigation_stack # <<>> THEN a.navigation_stack[Len(a.navigation_stack)]
    ELSE IF IsSome(a.os_list) THEN Unwrap(a.os_list).os_list
    ELSE <<>>

\* App::next and App::previous (main.rs 442-468)
next(a) == [a EXCEPT !.list_state = next_index(@, Len(current_items(a)))]
previous(a) == [a EXCEPT !.list_state = previous_index(@, Len(current_items(a)))]

\* App::select (main.rs 470-486), get_drives returning r when it is called.
select(a, r) ==
    IF Gets(current_items(a), a.list_state)
    THEN LET item == Got(current_items(a), a.list_state)
         IN  IF item.subitems # <<>>
             THEN [a EXCEPT !.selection_stack = Append(@, Unwrap(a.list_state)),
                            !.navigation_stack = Append(@, item.subitems),
                            !.breadcrumbs = Append(@, item.name),
                            !.list_state = Some(0)]
             ELSE refresh_drives([a EXCEPT !.selected_os = Some(item),
                                           !.current_view = "StorageSelection"], r)
    ELSE a

\* App::back (main.rs 585-599)
back(a) ==
    IF a.navigation_stack # <<>>
    THEN [a EXCEPT !.navigation_stack = Popped(@),
                   !.breadcrumbs = Popped(@),
                   !.selection_stack = Popped(@),
                   !.list_state =
                       Some(IF a.selection_stack # <<>>
                            THEN a.selection_stack[Len(a.selection_stack)] ELSE 0)]
    ELSE [a EXCEPT !.current_view = "DeviceSelection",
                   !.selected_os = None,
                   !.breadcrumbs = <<>>,
                   !.list_state = Some(0)]

\* App::select_drive (main.rs 500-508) with the cursor of the menu it sets.
select_drive_menu(a) ==
    IF Gets(a.drive_list, a.drive_list_state)
    THEN [select_drive(a) EXCEPT !.customization_menu_state = Some(0)]
    ELSE a

\* The longest filter typed into a popup that is followed.
MaxFilter == 1

\* static_data.rs 5-25: the lists of the popups, a string being the sequence
\* of its characters; discover_ssh_keys (customization.rs 387-420) finds no
\* key or one.
get_timezones == <<<<"u", "t", "c">>, <<"c", "e", "t">>>>
get_keyboards ==
    <<[code |-> <<"u", "s">>, name |-> <<"U", "S">>],
      [code |-> <<"g", "b">>, name |-> <<"U", "K">>]>>
get_locales == <<<<"e", "n">>>>
DiscoveredKeys == {<<>>, <<<<"ssh-ed25519 AAAA ", "u">>>>}
EnterManually == <<"<Enter Manually>">>
PopupTypes == {"Timezone", "Keyboard", "Locale", "SshKey"}

\* The character typed into a filter.
TypedChars == {"U"}

\* str::to_lowercase and str::contains on these strings
to_lowercase(s) ==
    [i \in DOMAIN s |-> CASE s[i] = "U" -> "u" [] s[i] = "S" -> "s"
                          [] s[i] = "K" -> "k" [] OTHER -> s[i]]
contains(s, f) ==
    \E i \in 0..(Len(s) - Len(f)) : SubSeq(s, i + 1, i + Len(f)) = f

\* format!("{} - {}", code, name)
KeyboardLine(k) == k.code \o <<" - ">> \o k.name

MapSeq(f(_), s) == [i \in DOMAIN s |-> f(s[i])]

\* App::update_popup_items (main.rs 234-280), discover_ssh_keys finding keys.
update_popup_items(a, keys) ==
    IF IsSome(a.popup)
    THEN LET filter == to_lowercase(a.popup_filter)
             Has(s) == contains(to_lowercase(s), filter)
             items ==
                 CASE Unwrap(a.popup) = "Timezone" -> SelectSeq(get_timezones, Has)
                   [] Unwrap(a.popup) = "Keyboard" ->
                         MapSeq(KeyboardLine,
                                SelectSeq(get_keyboards,
                                          LAMBDA k : Has(k.code) \/ Has(k.name)))
                   [] Unwrap(a.popup) = "Locale" -> SelectSeq(get_locales, Has)
                   [] Unwrap(a.popup) = "SshKey" ->
                         <<EnterManually>> \o SelectSeq(keys, Has)
         IN  [a EXCEPT !.popup_items = items,
                       !.popup_list_state = IF items = <<>> THEN None ELSE Some(0)]
    ELSE a

\* App::open_popup (main.rs 227-232)
open_popup(a, popup_type, keys) ==
    update_popup_items([a EXCEPT !.popup = Some(popup_type),
                                 !.popup_filter = <<>>,
                                 !.popup_list_state = Some(0)], keys)

\* App::popup_next and App::popup_previous (main.rs 282-314)
popup_next(a) ==
    IF a.popup_items = <<>> THEN a
    ELSE [a EXCEPT !.popup_list_state = next_index(@, Len(a.popup_items))]
popup_previous(a) ==
    IF a.popup_items = <<>> THEN a
    ELSE [a EXCEPT !.popup_list_state = previous_index(@, Len(a.popup_items))]

\* App::start_editing (main.rs 222-225); the text of the buffer is what the
\* user has made of it when Enter is pressed.
start_editing(a) == [a EXCEPT !.customization_ui.input_mode = "Editing"]

\* App::popup_select (main.rs 316-345). The settings (customization_options),
\* which no list and no cursor reads, are not among the fields followed: a
\* selection closes the popup, and "<Enter Manually>" starts the editing.
popup_select(a) ==
    IF IsSome(a.popup) /\ Gets(a.popup_items, a.popup_list_state)
    THEN LET selection == Got(a.popup_items, a.popup_list_state)
             popup_type == Unwrap(a.popup)
         IN  IF popup_type = "SshKey" /\ selection = EnterManually
             THEN start_editing([a EXCEPT !.popup = None])
             ELSE [a EXCEPT !.popup = None]
    ELSE [a EXCEPT !.popup = None]

\* App::customization_sub_item_count (main.rs 152-162)
menu_idx(a) ==
    IF IsSome(a.customization_menu_state) THEN Unwrap(a.customization_menu_state) ELSE 0
sub_idx(a) ==
    IF IsSome(a.customization_sub_menu_state)
    THEN Unwrap(a.customization_sub_menu_state) ELSE 0
customization_sub_item_count(a) ==
    CASE menu_idx(a) = 0 -> 1
      [] menu_idx(a) = 1 -> 3
      [] menu_idx(a) = 2 -> 2
      [] menu_idx(a) = 3 -> 3
      [] menu_idx(a) = 4 -> 3
      [] menu_idx(a) = 5 -> 1
      [] OTHER -> 0

\* App::handle_customization_enter (main.rs 164-220): a text field is edited
\* or a popup opened; the three switches (3/2, 4/0, 4/1) and the reset (5)
\* change settings only.
handle_customization_enter(a, keys) ==
    LET m == menu_idx(a)
        s == sub_idx(a)
    IN  CASE (m = 0 /\ s = 0) \/ (m = 2 /\ s \in {0, 1}) \/ (m = 3 /\ s \in {0, 1}) ->
                 start_editing(a)
          [] m = 1 /\ s = 0 -> open_popup(a, "Timezone", keys)
          [] m = 1 /\ s = 1 -> open_popup(a, "Keyboard", keys)
          [] m = 1 /\ s = 2 -> open_popup(a, "Locale", keys)
          [] m = 4 /\ s = 2 -> open_popup(a, "SshKey", keys)
          [] OTHER -> a

\* The listings of the views: get_drives fails, finds the system drive alone,
\* or finds it between two removable drives.
Sdb == Drive("/dev/sdb", <<>>)
NavListings ==
    {DrivesErr("lsblk failed"), DrivesOk(<<Nvme>>), DrivesOk(<<Sda, Nvme, Sdb>>)}

\* main (main.rs 602-670): App::new, and for an image named on the command
\* line that image selected, the drives listed and the storage view shown.
NInit ==
    /\ WIdle
    /\ SIdle
    /\ CIdle
    /\ PIdle
    /\ attempt = "none" /\ writes = 0
    /\ \/ nav = NavNew
       \/ \E r \in NavListings :
            nav = refresh_drives(
                      [NavNew EXCEPT !.selected_os =
                                         Some([name |-> "image.img", subitems |-> <<>>]
                                              @@ LocalImage),
                                     !.current_view = "StorageSelection"], r)

\* main.rs 840-853: the catalog, or the error of its download, arrives.
NavOsListLoaded ==
    /\ nav.is_loading
    /\ \/ \E data \in Catalogs :
            nav' = [nav EXCEPT !.os_list = Some(data), !.is_loading = FALSE,
                               !.list_state = Some(0),
                               !.device_list_state = Some(0)]
       \/ nav' = [nav EXCEPT !.error_message = Some("error decoding response body"),
                             !.is_loading = FALSE]
    /\ UNCHANGED <<attempt, writes, wvars, svars, cvars, pvars>>

\* main.rs 737-838: a pending invocation is taken and spawned, or cannot be.
NavSpawn ==
    /\ IsSome(nav.worker_args)
    /\ \/ /\ nav' = [nav EXCEPT !.worker_args = None,
                                !.current_view = "Writing",
                                !.write_status = "Starting worker...",
                                !.abort_handle = TRUE,
                                !.write_task = TRUE]
          /\ attempt' = "running"
       \/ /\ nav' = [nav EXCEPT !.worker_args = None,
                                !.error_message =
                                    Some("Failed to spawn privileged process: "
                                         \o SpawnError("sudo")),
                                !.current_view = "StorageSelection"]
          /\ UNCHANGED attempt
    /\ writes' = writes + 1
    /\ UNCHANGED <<wvars, svars, cvars, pvars>>

\* main.rs 866-876: the terminal message of the worker is received; one that
\* was queued when the reader task was aborted is received after the abort.
\* (The progress, phase and status messages set the gauges and the status.)
NavTerminalMessage ==
    /\ attempt \in {"running", "aborted"}
    /\ ~IsSome(nav.worker_args)
    /\ \E m \in {WriteFinished, WriteError("Failed to write data to device")} :
         nav' = OnMessage(nav, m)
    /\ attempt' = "none"
    /\ UNCHANGED <<writes, wvars, svars, cvars, pvars>>

\* A key is read: the loop is past its top, so no invocation is pending.
\* ('q', which ends the loop, is not among the keys followed.)
NavKey == ~IsSome(nav.worker_args)

\* main.rs 896-899: any key dismisses a shown error and does nothing else.
NavKeyDismissError ==
    /\ NavKey
    /\ IsSome(nav.error_message)
    /\ nav' = [nav EXCEPT !.error_message = None]
    /\ UNCHANGED <<attempt, writes, wvars, svars, cvars, pvars>>

\* The invocations of the worker that are followed.
MaxWrites == 2

\* main.rs 901-918: the keys of an open popup.
NavKeyPopup ==
    /\ NavKey
    /\ writes < MaxWrites
    /\ ~IsSome(nav.error_message)
    /\ IsSome(nav.popup)
    /\ \E key \in {"Esc", "Enter", "Up", "Down", "Char", "Backspace"} :
         CASE key = "Esc" -> nav' = [nav EXCEPT !.popup = None]
           [] key = "Enter" -> nav' = popup_select(nav)
           [] key = "Up" -> nav' = popup_previous(nav)
           [] key = "Down" -> nav' = popup_next(nav)
           [] key = "Char" ->
                /\ Len(nav.popup_filter) < MaxFilter
                /\ \E c \in TypedChars, keys \in DiscoveredKeys :
                     nav' = update_popup_items(
                                [nav EXCEPT !.popup_filter = Append(@, c)], keys)
           [] key = "Backspace" ->
                \E keys \in DiscoveredKeys :
                    nav' = update_popup_items(
                               [nav EXCEPT !.popup_filter = Popped(@)], keys)
    /\ UNCHANGED <<attempt, writes, wvars, svars, cvars, pvars>>

NavKeyIn(view) ==
    /\ NavKey
    /\ ~IsSome(nav.error_message)
    /\ ~IsSome(nav.popup)
    /\ nav.current_view = view

\* The session is followed as long as it can lead to an invocation the
\* model still has.
NavGoing(view) == NavKeyIn(view) /\ writes < MaxWrites

\* main.rs 921-927
NavKeyDeviceSelection ==
    /\ NavGoing("DeviceSelection")
    /\ \E key \in {"Down", "Up", "Enter"} :
         nav' = CASE key = "Down" -> next_device(nav)
                  [] key = "Up" -> previous_device(nav)
                  [] key = "Enter" -> select_device(nav)
    /\ UNCHANGED <<attempt, writes, wvars, svars, cvars, pvars>>

\* main.rs 928-945
NavKeyOsSelection ==
    /\ NavGoing("OsSelection")
    /\ \E key \in {"Esc", "Down", "Up", "Enter", "Left"} :
         CASE key = "Esc" ->
                nav' = IF nav.navigation_stack # <<>>
                       THEN back(nav)
                       ELSE [nav EXCEPT !.current_view = "DeviceSelection",
                                        !.selected_os = None,
                                        !.breadcrumbs = <<>>]
           [] key = "Down" -> nav' = next(nav)
           [] key = "Up" -> nav' = previous(nav)
           [] key = "Enter" -> \E r \in NavListings : nav' = select(nav, r)
           [] key = "Left" -> nav' = back(nav)
    /\ UNCHANGED <<attempt, writes, wvars, svars, cvars, pvars>>

\* main.rs 946-963
NavKeyStorageSelection ==
    /\ NavGoing("StorageSelection")
    /\ \E key \in {"Esc", "Down", "Up", "Enter", "r", "o"} :
         IF key = "r"
         THEN \E r \in NavListings : nav' = refresh_drives(nav, r)
         ELSE nav' = CASE key = "Esc" ->
                             [nav EXCEPT !.current_view = "OsSelection",
                                         !.drive_list = <<>>,
                                         !.selected_os = None]
                       [] key = "Down" -> next_drive(nav)
                       [] key = "Up" -> previous_drive(nav)
                       [] key = "Enter" -> select_drive_menu(nav)
                       [] key = "o" -> [nav EXCEPT !.current_view = "Customization"]
    /\ UNCHANGED <<attempt, writes, wvars, svars, cvars, pvars>>

\* main.rs 965-982: a text field is being edited; Enter stores the text in
\* the settings, Esc drops it, and both end the editing.
NavKeyEditing ==
    /\ NavGoing("Customization")
    /\ nav.customization_ui.input_mode = "Editing"
    /\ nav' = [nav EXCEPT !.customization_ui.input_mode = "Navigation"]
    /\ UNCHANGED <<attempt, writes, wvars, svars, cvars, pvars>>

\* main.rs 983-1024: the keys of the sub-menu.
NavKeySubMenu ==
    /\ NavGoing("Customization")
    /\ nav.customization_ui.input_mode # "Editing"
    /\ nav.in_customization_submenu
    /\ \E key \in {"Esc", "Down", "Up", "Enter"} :
         CASE key = "Esc" ->
                nav' = [nav EXCEPT !.in_customization_submenu = FALSE,
                                   !.customization_sub_menu_state = None]
           [] key = "Down" ->
                nav' = [nav EXCEPT !.customization_sub_menu_state =
                                       next_index(@, customization_sub_item_count(nav))]
           [] key = "Up" ->
                nav' = [nav EXCEPT !.customization_sub_menu_state =
                                       previous_index(@, customization_sub_item_count(nav))]
           [] key = "Enter" ->
                \E keys \in DiscoveredKeys : nav' = handle_customization_enter(nav, keys)
    /\ UNCHANGED <<attempt, writes, wvars, svars, cvars, pvars>>

\* The entries of the customization menu (main.rs 1030-1055: 0..6, 6 is NEXT).
MenuLen == 7

\* main.rs 1025-1066: the keys of the customization menu.
NavKeyMenu ==
    /\ NavGoing("Customization")
    /\ nav.customization_ui.input_mode # "Editing"
    /\ ~nav.in_customization_submenu
    /\ \E key \in {"Esc", "Down", "Up", "Enter"} :
         nav' = CASE key = "Esc" -> [nav EXCEPT !.current_view = "StorageSelection"]
                  [] key = "Down" ->
                        [nav EXCEPT !.customization_menu_state = next_index(@, MenuLen)]
                  [] key = "Up" ->
                        [nav EXCEPT !.customization_menu_state =
                                        previous_index(@, MenuLen)]
                  [] key = "Enter" ->
                        IF nav.customization_menu_state = Some(MenuLen - 1)
                        THEN [nav EXCEPT !.current_view = "WriteConfirmation"]
                        ELSE [nav EXCEPT !.in_customization_submenu = TRUE,
                                         !.customization_sub_menu_state = Some(0)]
    /\ UNCHANGED <<attempt, writes, wvars, svars, cvars, pvars>>

\* main.rs 1069-1081
NavKeyWriteConfirmation ==
    /\ NavGoing("WriteConfirmation")
    /\ \E key \in {"Esc", "y"} :
         nav' = CASE key = "Esc" -> [nav EXCEPT !.current_view = "StorageSelection",
                                                !.selected_drive = None]
                  [] key = "y" -> start_writing(nav)
    /\ UNCHANGED <<attempt, writes, wvars, svars, cvars, pvars>>

\* main.rs 1082-1093: Esc while writing asks; 'y' is App::abort_writing, which
\* aborts the reader task; 'n' goes back.
NavKeyWriting ==
    /\ \/ /\ NavKeyIn("Writing")
          /\ nav' = [nav EXCEPT !.current_view = "AbortConfirmation"]
          /\ UNCHANGED attempt
       \/ /\ NavKeyIn("AbortConfirmation")
          /\ \/ /\ nav' = abort_writing(nav)
                /\ attempt' = IF attempt = "running" THEN "aborted" ELSE attempt
             \/ /\ nav' = [nav EXCEPT !.current_view = "Writing"]
                /\ UNCHANGED attempt
    /\ UNCHANGED <<writes, wvars, svars, cvars, pvars>>

\* main.rs 1094-1107: a key in the Finished view starts over.
NavKeyFinished ==
    /\ NavKeyIn("Finished")
    /\ nav' = [nav EXCEPT !.current_view = "DeviceSelection",
                          !.selected_os = None,
                          !.selected_drive = None,
                          !.navigation_stack = <<>>,
                          !.breadcrumbs = <<>>,
                          !.list_state = Some(0),
                          !.selected_device = None,
                          !.device_list_state = Some(0)]
    /\ UNCHANGED <<attempt, writes, wvars, svars, cvars, pvars>>

NNext ==
    \/ NavOsListLoaded
    \/ NavSpawn
    \/ NavTerminalMessage
    \/ NavKeyDismissError
    \/ NavKeyPopup
    \/ NavKeyDeviceSelection
    \/ NavKeyOsSelection
    \/ NavKeyStorageSelection
    \/ NavKeyEditing
    \/ NavKeySubMenu
    \/ NavKeyMenu
    \/ NavKeyWriteConfirmation
    \/ NavKeyWriting
    \/ NavKeyFinished

NavSpec == NInit /\ [][NNext]_vars

\* C38, as claimed: the category navigation stack, the breadcrumb list and
\* the saved-selection stack have the same length in every state of the views.
C38_StacksOfEqualLength ==
    /\ Len(nav.navigation_stack) = Len(nav.breadcrumbs)
    /\ Len(nav.navigation_stack) = Len(nav.selection_stack)

\* A cursor that is set points inside a list of len entries, when it has any.
Inside(selected, len) == (IsSome(selected) /\ len > 0) => Unwrap(selected) < len

\* The cursors of the views and the lists they belong to.
CursorsInside ==
    /\ Inside(nav.device_list_state, Len(get_devices(nav)))
    /\ Inside(nav.list_state, Len(current_items(nav)))
    /\ Inside(nav.drive_list_state, Len(nav.drive_list))
    /\ Inside(nav.popup_list_state, Len(nav.popup_items))
    /\ Inside(nav.customization_menu_state, MenuLen)
    /\ Inside(nav.customization_sub_menu_state, customization_sub_item_count(nav))

\* From a cursor inside a list of len entries, down gives the entry after it
\* and up the entry before it, going round at both ends.
Wraps(selected, down, up, len) ==
    (IsSome(selected) /\ Unwrap(selected) < len) =>
        /\ down = Some((Unwrap(selected) + 1) % len)
        /\ up = Some((Unwrap(selected) + len - 1) % len)
CursorsWrap ==
    /\ Wraps(nav.device_list_state, next_device(nav).device_list_state,
             previous_device(nav).device_list_state, Len(get_devices(nav)))
    /\ Wraps(nav.list_state, next(nav).list_state, previous(nav).list_state,
             Len(current_items(nav)))
    /\ Wraps(nav.drive_list_state, next_drive(nav).drive_list_state,
             previous_drive(nav).drive_list_state, Len(nav.drive_list))
    /\ Wraps(nav.popup_list_state, popup_next(nav).popup_list_state,
             popup_previous(nav).popup_list_state, Len(nav.popup_items))
    /\ Wraps(nav.customization_menu_state,
             next_index(nav.customization_menu_state, MenuLen),
             previous_index(nav.customization_menu_state, MenuLen), MenuLen)
    /\ Wraps(nav.customization_sub_menu_state,
             next_index(nav.customization_sub_menu_state,
                        customization_sub_item_count(nav)),
             previous_index(nav.customization_sub_menu_state,
                            customization_sub_item_count(nav)),
             customization_sub_item_count(nav))

\* Enter where the cursor finds no entry leaves the fields as they are.
EnterChangesNothing ==
    /\ ~Gets(get_devices(nav), nav.device_list_state) => select_device(nav) = nav
    /\ ~Gets(current_items(nav), nav.list_state) =>
           \A r \in NavListings : select(nav, r) = nav
    /\ ~Gets(nav.drive_list, nav.drive_list_state) => select_drive_menu(nav) = nav
    /\ ~Gets(nav.popup_items, nav.popup_list_state) => popup_select(nav) = nav

\* C39, as claimed: in every state of the views each cursor that is set
\* points inside its list when the list is not empty, down and up go round
\* at both ends, and Enter on a cursor outside its list or on an empty list
\* changes nothing.
C39_CursorsInsideWrapAndEnterIdle ==
    /\ CursorsInside
    /\ CursorsWrap
    /\ EnterChangesNothing

====
